---- MODULE Spec2Model ----
(***************************************************************************)
(* Model of subsapi.  The subscription summary core:                       *)
(* service.CalculateSubscriptionMetrics and service.AddOverlapMonths,      *)
(* with the time helpers they use (utils.MaxTime, utils.MinTime and the    *)
(* methods of time.Time that the code calls).  Around it: the methods of   *)
(* service.SubscriptionService over the repository, App.Run, and           *)
(* database.NewPostgresConnection.  Each part has its own variables and    *)
(* its own specification; the other parts stay as constructed.  The core   *)
(* is modelled twice: with one step for each iteration of the range loop,  *)
(* and with the month loop of AddOverlapMonths run one iteration a step.   *)
(*                                                                         *)
(* A time.Time is a record [year, month, day].  Every date the service     *)
(* stores or parses ("MM-YYYY") is a first of a month at midnight; the     *)
(* only other instant is time.Now() as the default periodEnd, whose time   *)
(* of day never changes a comparison with a midnight date of another day   *)
(* and is therefore left out.                                              *)
(*                                                                         *)
(* Price is a Go int and totalCost an int64; the prices and month counts   *)
(* of the model keep every sum far below both widths.                      *)
(***************************************************************************)
EXTENDS Integers, Sequences, FiniteSets, TLC

VARIABLES
    subscriptions,  \* argument: the ordered list of models.Subscription
    periodStart,    \* argument: start of the query window
    periodEnd,      \* argument: end of the query window
    unitPrice,      \* local of CalculateSubscriptionMetrics
    totalCost,      \* local of CalculateSubscriptionMetrics
    uniqueMonths,   \* local map[string]bool, as the set of keys holding true
    idx,            \* position of the range loop over subscriptions
    pc,             \* "idle", "loop" or "done"
    ret,            \* the triple returned by the last finished call
    remembered,     \* history: at most one earlier call with its result
    aom,            \* the frame of a call of AddOverlapMonths run step by step
    processed,      \* history: what each iteration of the range loop added
    store,          \* the subscriptions table: id -> row, NoRow if none
    nextID,         \* the next primary key the table assigns
    last,           \* the last service call: its request, error and before-image
    now,            \* what time.Now() returns
    calls,          \* concurrent calls of the core: request -> frame
    server,         \* http.Server: "new", "listening", "failed" or "closed"
    serverErrChan,  \* App.serverErrChan: [buf, closed], capacity 1
    quitChan,       \* App.quitChan: the buffered signals, capacity 1
    ctxDone,        \* whether App.ctx is cancelled
    run,            \* the frame of App.Run
    once,           \* database.once: "fresh", "running" or "done"
    PgDriverInstance, \* database.PgDriverInstance
    opened,         \* the connections gorm.Open has opened
    callers         \* the callers of NewPostgresConnection: caller -> frame

coreVars == <<subscriptions, periodStart, periodEnd, unitPrice, totalCost,
              uniqueMonths, idx, pc, ret, remembered, aom, processed>>

serviceVars == <<store, nextID, last, now>>

concVars == <<calls>>

appVars == <<server, serverErrChan, quitChan, ctxDone, run>>

dbVars == <<once, PgDriverInstance, opened, callers>>

vars == <<subscriptions, periodStart, periodEnd, unitPrice, totalCost,
          uniqueMonths, idx, pc, ret, remembered, aom, processed, store,
          nextID, last, now,
          calls, server, serverErrChan, quitChan, ctxDone, run, once,
          PgDriverInstance, opened, callers>>

----------------------------------------------------------------------------
(* Bounds of the model *)

\* number of consecutive calendar months the stored dates are drawn from
NumMonths == 2

\* longest enumerated subscription list
MaxSubs == 2

\* rows the subscriptions table receives: the guard of the key counter
MaxIDs == 1

\* summary requests served at the same time
NumRequests == 2

\* goroutines calling NewPostgresConnection
NumCallers == 2

----------------------------------------------------------------------------
(* time.Time *)

Date(y, m, d) == [year |-> y, month |-> m, day |-> d]

\* time.Time{} : January 1, year 1
ZeroTime == Date(1, 1, 1)

IsZero(t) == t = ZeroTime

After(a, b) ==
    \/ a.year > b.year
    \/ a.year = b.year /\ a.month > b.month
    \/ a.year = b.year /\ a.month = b.month /\ a.day > b.day

Before(a, b) ==
    \/ a.year < b.year
    \/ a.year = b.year /\ a.month < b.month
    \/ a.year = b.year /\ a.month = b.month /\ a.day < b.day

Equal(a, b) == a.year = b.year /\ a.month = b.month /\ a.day = b.day

IsLeap(y) == y % 4 = 0 /\ (y % 100 # 0 \/ y % 400 = 0)

DaysIn(y, m) ==
    IF m = 2 THEN (IF IsLeap(y) THEN 29 ELSE 28)
    ELSE IF m \in {4, 6, 9, 11} THEN 30 ELSE 31

\* t.AddDate(0, months, days) for the two uses in the code, (0,0,1) and
\* (0,1,0): the sum is normalised the way time.Date normalises it.
AddDate(t, months, days) ==
    LET m0 == t.month + months
        y1 == IF m0 > 12 THEN t.year + 1 ELSE t.year
        m1 == IF m0 > 12 THEN m0 - 12 ELSE m0
        d0 == t.day + days
    IN  IF d0 <= DaysIn(y1, m1) THEN Date(y1, m1, d0)
        ELSE IF m1 = 12 THEN Date(y1 + 1, 1, d0 - DaysIn(y1, m1))
        ELSE Date(y1, m1 + 1, d0 - DaysIn(y1, m1))

\* variant: the first argument, whichever is later
MaxTimeFirst(a, b) == a

\* utils.MaxTime
MaxTime(a, b) == IF After(a, b) THEN a ELSE b

\* variant: the second argument, whichever is earlier
MinTimeSecond(a, b) == b

\* utils.MinTime
MinTime(a, b) == IF Before(a, b) THEN a ELSE b

----------------------------------------------------------------------------
(* models.Subscription: Price, StartDate and EndDate; EndDate is a pointer *)
(* to a time.Time, modelled as Nil or the one-element sequence <<t>>.      *)

Nil == <<>>

Sub(price, start, end) == [Price |-> price, StartDate |-> start, EndDate |-> end]

\* variant: only a nil EndDate means an ongoing subscription
IsOngoingNilOnly(sub) == sub.EndDate = Nil

\* sub.EndDate == nil || sub.EndDate.IsZero()
IsOngoing(sub) == sub.EndDate = Nil \/ IsZero(sub.EndDate[1])

----------------------------------------------------------------------------
(* AddOverlapMonths *)

Pad2(n) == IF n < 10 THEN "0" \o ToString(n) ELSE ToString(n)

\* variant: the key is the month number alone
MonthKeyOfYear(current) == Pad2(current.month)

\* fmt.Sprintf("%d-%02d", current.Year(), current.Month())
MonthKey(current) == ToString(current.year) \o "-" \o Pad2(current.month)

\* variant: the loop ends at the first month already in the map
RECURSIVE MonthLoopBreak(_, _, _, _, _)
MonthLoopBreak(months, current, endMonth, monthsAdded, steps) ==
    IF After(current, endMonth) \/ MonthKey(current) \in months
    THEN [uniqueMonths |-> months, monthsAdded |-> monthsAdded, steps |-> steps]
    ELSE MonthLoopBreak(months \cup {MonthKey(current)}, AddDate(current, 1, 0),
                        endMonth, monthsAdded + 1, steps + 1)

\* the for loop: the map after the loop, monthsAdded and the iterations run
RECURSIVE MonthLoop(_, _, _, _, _)
MonthLoop(months, current, endMonth, monthsAdded, steps) ==
    IF After(current, endMonth)
    THEN [uniqueMonths |-> months, monthsAdded |-> monthsAdded, steps |-> steps]
    ELSE LET monthKey == MonthKey(current)
         IN  IF monthKey \notin months
             THEN MonthLoop(months \cup {monthKey}, AddDate(current, 1, 0),
                            endMonth, monthsAdded + 1, steps + 1)
             ELSE MonthLoop(months, AddDate(current, 1, 0),
                            endMonth, monthsAdded, steps + 1)

\* variant: the loop runs on the dates as given, not on firsts of months
AddOverlapMonthsUntruncated(months, start, end) ==
    MonthLoop(months, start, end, 0, 0)

\* variant: monthsAdded counts every month of the range, new or not
AddOverlapMonthsNoDedup(months, start, end) ==
    LET r == MonthLoop(months, Date(start.year, start.month, 1),
                       Date(end.year, end.month, 1), 0, 0)
    IN  [r EXCEPT !.monthsAdded = r.steps]

AddOverlapMonths(months, start, end) ==
    LET current  == Date(start.year, start.month, 1)
        endMonth == Date(end.year, end.month, 1)
    IN  MonthLoop(months, current, endMonth, 0, 0)

----------------------------------------------------------------------------
(* CalculateSubscriptionMetrics *)

\* the locals of one call
Locals(u, t, m) == [unitPrice |-> u, totalCost |-> t, uniqueMonths |-> m]

\* var unitPrice int; var totalCost int64; uniqueMonths := make(map[string]bool)
FreshLocals == Locals(0, 0, {})

\* variant: the start date is not clipped to the window
EffectiveStartUnclipped(sub, pStart) == sub.StartDate

EffectiveStart(sub, pStart) == MaxTime(sub.StartDate, pStart)

\* variant: the end date is not clipped to the window
EffectiveEndUnclipped(sub, pEnd) ==
    IF IsOngoing(sub) THEN pEnd ELSE sub.EndDate[1]

\* variant: a subscription without end date ends in its first month
EffectiveEndOngoingStart(sub, pEnd) ==
    IF IsOngoing(sub) THEN sub.StartDate ELSE MinTime(sub.EndDate[1], pEnd)

EffectiveEnd(sub, pEnd) ==
    IF IsOngoing(sub) THEN pEnd ELSE MinTime(sub.EndDate[1], pEnd)

\* variant: an interval that starts the day before it ends counts as no
\* overlap
NoOverlapDayBefore(effectiveStart, effectiveEnd) ==
    \/ After(effectiveStart, effectiveEnd)
    \/ Equal(AddDate(effectiveStart, 0, 1), effectiveEnd)

\* variant: an interval of one instant counts as no overlap
NoOverlapNotBefore(effectiveStart, effectiveEnd) ==
    ~Before(effectiveStart, effectiveEnd)

\* the test that skips a subscription with `continue`
NoOverlap(effectiveStart, effectiveEnd) ==
    \/ After(effectiveStart, effectiveEnd)
    \/ Equal(effectiveStart, AddDate(effectiveEnd, 0, 1))

\* variant: the cost is the price times every month of the interval
LoopBodyAllMonths(l, sub, pStart, pEnd) ==
    LET u  == IF l.unitPrice = 0 THEN sub.Price ELSE l.unitPrice
        es == EffectiveStart(sub, pStart)
        ee == EffectiveEnd(sub, pEnd)
        r  == AddOverlapMonths(l.uniqueMonths, es, ee)
    IN  IF NoOverlap(es, ee) THEN Locals(u, l.totalCost, l.uniqueMonths)
        ELSE Locals(u, l.totalCost + sub.Price * r.steps, r.uniqueMonths)

\* variant: the cost is unitPrice times the months added
LoopBodyUnitPrice(l, sub, pStart, pEnd) ==
    LET u  == IF l.unitPrice = 0 THEN sub.Price ELSE l.unitPrice
        es == EffectiveStart(sub, pStart)
        ee == EffectiveEnd(sub, pEnd)
        r  == AddOverlapMonths(l.uniqueMonths, es, ee)
    IN  IF NoOverlap(es, ee) THEN Locals(u, l.totalCost, l.uniqueMonths)
        ELSE Locals(u, l.totalCost + u * r.monthsAdded, r.uniqueMonths)

\* variant: the cost is the price, once, whatever the months added
LoopBodyFlat(l, sub, pStart, pEnd) ==
    LET u  == IF l.unitPrice = 0 THEN sub.Price ELSE l.unitPrice
        es == EffectiveStart(sub, pStart)
        ee == EffectiveEnd(sub, pEnd)
        r  == AddOverlapMonths(l.uniqueMonths, es, ee)
    IN  IF NoOverlap(es, ee) THEN Locals(u, l.totalCost, l.uniqueMonths)
        ELSE IF r.monthsAdded > 0
             THEN Locals(u, l.totalCost + sub.Price, r.uniqueMonths)
             ELSE Locals(u, l.totalCost, r.uniqueMonths)

\* one iteration of the range loop, from the locals before it to those after
LoopBody(l, sub, pStart, pEnd) ==
    LET u  == IF l.unitPrice = 0 THEN sub.Price ELSE l.unitPrice
        es == EffectiveStart(sub, pStart)
        ee == EffectiveEnd(sub, pEnd)
        r  == AddOverlapMonths(l.uniqueMonths, es, ee)
    IN  IF NoOverlap(es, ee) THEN Locals(u, l.totalCost, l.uniqueMonths)
        ELSE IF r.monthsAdded > 0
             THEN Locals(u, l.totalCost + sub.Price * r.monthsAdded, r.uniqueMonths)
             ELSE Locals(u, l.totalCost, r.uniqueMonths)

\* return unitPrice, totalCost, len(uniqueMonths)
Result(l) == [unitPrice |-> l.unitPrice, totalCost |-> l.totalCost,
              uniqueMonths |-> Cardinality(l.uniqueMonths)]

RECURSIVE RangeLoop(_, _, _, _, _)
RangeLoop(l, subs, i, pStart, pEnd) ==
    IF i > Len(subs) THEN l
    ELSE RangeLoop(LoopBody(l, subs[i], pStart, pEnd), subs, i + 1, pStart, pEnd)

\* the function as a whole: what one call returns for given arguments
CalculateSubscriptionMetrics(subs, pStart, pEnd) ==
    Result(RangeLoop(FreshLocals, subs, 1, pStart, pEnd))

----------------------------------------------------------------------------
(* The arguments a call can receive *)

\* first of the enumerated months; with NumMonths they span a year's end
BaseMonth == Date(2024, 11, 1)

RECURSIVE MonthAt(_)
MonthAt(k) == IF k = 0 THEN BaseMonth ELSE AddDate(MonthAt(k - 1), 1, 0)

\* the dates ParseMonthYear yields for stored subscriptions: firsts of months
ModelMonths == {MonthAt(k) : k \in 0..(NumMonths - 1)}

\* the months of a query: those of the stored dates and the month after
WindowMonths == {MonthAt(k) : k \in 0..NumMonths}

\* monthly prices; the request binding admits only Price > 0
Prices == {10, 20}

\* days of the month time.Now() may fall on
NowDays == {1, 15}

\* what CreateSubscription and UpdateSubscriptionByID store: a start date,
\* and no end date or one that ValidateEndDate found after the start date
ModelSubs ==
    {s \in [Price : Prices, StartDate : ModelMonths,
            EndDate : {Nil} \cup {<<e>> : e \in ModelMonths}] :
        s.EndDate = Nil \/ After(s.EndDate[1], s.StartDate)}

\* the lists the repository may return, in any order
SubLists(S) == UNION {[1..k -> S] : k \in 0..MaxSubs}

\* periodStart: time.Time{} when "from" is omitted, else the parsed month
PeriodStarts == {ZeroTime} \cup WindowMonths

\* periodEnd: the parsed "to", or time.Now() when "to" is omitted
PeriodEnds == {Date(m.year, m.month, d) : m \in WindowMonths, d \in NowDays}

Input(subs, pStart, pEnd) ==
    [subscriptions |-> subs, periodStart |-> pStart, periodEnd |-> pEnd]

\* the two concrete scenarios of the specification's testable properties
ScenarioA == Sub(100, Date(2024, 1, 1), Nil)
ScenarioB == Sub(200, Date(2024, 6, 1), Nil)
ScenarioC == Sub(400, Date(2024, 1, 1), <<Date(2024, 3, 1)>>)

ScenarioOpen == Input(<<ScenarioA, ScenarioB>>, Date(2024, 1, 1), Date(2024, 8, 1))
ScenarioClosed == Input(<<ScenarioC>>, Date(2024, 1, 1), Date(2024, 12, 1))

Inputs ==
    {Input(subs, ps, pe) :
        subs \in SubLists(ModelSubs), ps \in PeriodStarts, pe \in PeriodEnds}
    \cup {ScenarioOpen, ScenarioClosed}

\* the arguments of the repeated calls: the subscriptions of the first
\* scenario in every list of up to MaxSubs, with the scenario windows
CallInputs ==
    {Input(subs, w.periodStart, w.periodEnd) :
        subs \in SubLists({ScenarioA, ScenarioB}),
        w \in {ScenarioOpen, ScenarioClosed}}

----------------------------------------------------------------------------
(* The state machine: calls of CalculateSubscriptionMetrics, one at a time *)

NoResult == [unitPrice |-> 0, totalCost |-> 0, uniqueMonths |-> 0]

\* no service call has been made
NoCall ==
    [op |-> "none", id |-> 0, req |-> <<>>, before |-> {}, err |-> "nil",
     status |-> 0]

\* the service as NewSubscriptionService leaves it, over an empty table
ServiceInit ==
    /\ store = {}
    /\ nextID = 1
    /\ last = NoCall
    /\ now = BaseMonth

\* no request is being served
CallsInit == calls = <<>>

\* variant: the channel is made without a buffer
NewChanUnbuffered == [buf |-> <<>>, closed |-> FALSE, cap |-> 0]

\* make(chan error, 1): nothing buffered, not closed
NewChan == [buf |-> <<>>, closed |-> FALSE, cap |-> 1]

\* Run has not been entered and its goroutine does not exist.  pc is the
\* position of Run, serve that of the goroutine; branch, shutdowns, closes,
\* triggered and failedFirst record what has happened, sends and chanCloses
\* what the goroutine has done to serverErrChan.
RunInit ==
    [pc |-> "start", ret |-> "none", branch |-> "none",
     serve |-> "none", serveErr |-> "nil",
     shutdownErr |-> "none", shutdowns |-> <<>>, closes |-> 0,
     triggered |-> FALSE, failedFirst |-> FALSE,
     sends |-> 0, chanCloses |-> 0]

\* the App as NewApp returns it
AppInit ==
    /\ server = "new"
    /\ serverErrChan = NewChan
    /\ quitChan = <<>>
    /\ ctxDone = FALSE
    /\ run = RunInit

\* the package variables of database before the first call
DbInit ==
    /\ once = "fresh"
    /\ PgDriverInstance = Nil
    /\ opened = <<>>
    /\ callers = <<>>

\* no call of AddOverlapMonths is running.  start, end and given are the
\* arguments as passed, current, endMonth and monthsAdded the locals; steps
\* counts the iterations of the for loop and ret is the value returned.
NoAdd ==
    [pc |-> "idle", start |-> ZeroTime, end |-> ZeroTime, given |-> {},
     current |-> ZeroTime, endMonth |-> ZeroTime, monthsAdded |-> 0,
     steps |-> 0, ret |-> 0]

\* no call of the core has been made
CoreInit ==
    /\ subscriptions = <<>>
    /\ periodStart = ZeroTime
    /\ periodEnd = ZeroTime
    /\ unitPrice = 0
    /\ totalCost = 0
    /\ uniqueMonths = {}
    /\ idx = 0
    /\ pc = "idle"
    /\ ret = NoResult
    /\ remembered = <<>>
    /\ aom = NoAdd
    /\ processed = <<>>

Init == CoreInit /\ ServiceInit /\ CallsInit /\ AppInit /\ DbInit

CurrentInput == Input(subscriptions, periodStart, periodEnd)

\* history only: a call on other arguments than the remembered ones finished
NoteReturn(rem, in) ==
    IF rem # <<>> /\ rem[1].input # in
    THEN <<[rem[1] EXCEPT !.between = TRUE]>>
    ELSE rem

\* variant: the month map outlives the call
CallStale(in) ==
    /\ pc \in {"idle", "done"}
    /\ subscriptions' = in.subscriptions
    /\ periodStart' = in.periodStart
    /\ periodEnd' = in.periodEnd
    /\ unitPrice' = FreshLocals.unitPrice
    /\ totalCost' = FreshLocals.totalCost
    /\ idx' = 1
    /\ pc' = "loop"
    /\ UNCHANGED <<uniqueMonths, ret, remembered, aom, processed>>

\* entry of the function: the arguments are bound and the locals declared
Call(in) ==
    /\ pc \in {"idle", "done"}
    /\ subscriptions' = in.subscriptions
    /\ periodStart' = in.periodStart
    /\ periodEnd' = in.periodEnd
    /\ unitPrice' = FreshLocals.unitPrice
    /\ totalCost' = FreshLocals.totalCost
    /\ uniqueMonths' = FreshLocals.uniqueMonths
    /\ idx' = 1
    /\ pc' = "loop"
    /\ UNCHANGED <<ret, remembered, aom, processed>>

\* one iteration of `for _, sub := range subscriptions`
LoopStep ==
    /\ pc = "loop"
    /\ idx <= Len(subscriptions)
    /\ LET l == LoopBody(Locals(unitPrice, totalCost, uniqueMonths),
                         subscriptions[idx], periodStart, periodEnd)
       IN  /\ unitPrice' = l.unitPrice
           /\ totalCost' = l.totalCost
           /\ uniqueMonths' = l.uniqueMonths
    /\ idx' = idx + 1
    /\ UNCHANGED <<subscriptions, periodStart, periodEnd, pc, ret, remembered,
                   aom, processed>>
    /\ UNCHANGED <<serviceVars, concVars, appVars, dbVars>>

\* return unitPrice, totalCost, len(uniqueMonths)
Return ==
    /\ pc = "loop"
    /\ idx > Len(subscriptions)
    /\ ret' = Result(Locals(unitPrice, totalCost, uniqueMonths))
    /\ pc' = "done"
    /\ remembered' = NoteReturn(remembered, CurrentInput)
    /\ UNCHANGED <<subscriptions, periodStart, periodEnd, unitPrice, totalCost,
                   uniqueMonths, idx, aom, processed>>
    /\ UNCHANGED <<serviceVars, concVars, appVars, dbVars>>

\* the one call of a request, on any of the arguments
CallOnce ==
    /\ pc = "idle"
    /\ \E in \in Inputs : Call(in)
    /\ UNCHANGED <<serviceVars, concVars, appVars, dbVars>>

Next ==
    \/ CallOnce
    \/ LoopStep
    \/ Return

Spec == Init /\ [][Next]_vars

----------------------------------------------------------------------------
(* Repeated calls: a finished call may be remembered with its result, to   *)
(* be compared with a later call on the same arguments.                    *)

Remember ==
    /\ pc = "done"
    /\ remembered = <<>>
    /\ remembered' = <<[input |-> CurrentInput, result |-> ret, between |-> FALSE]>>
    /\ UNCHANGED <<subscriptions, periodStart, periodEnd, unitPrice, totalCost,
                   uniqueMonths, idx, pc, ret, aom, processed>>
    /\ UNCHANGED <<serviceVars, concVars, appVars, dbVars>>

\* one call after another
CallAgain ==
    /\ pc \in {"idle", "done"}
    /\ \E in \in CallInputs : Call(in)
    /\ UNCHANGED <<serviceVars, concVars, appVars, dbVars>>

NextCalls ==
    \/ CallAgain
    \/ LoopStep
    \/ Return
    \/ Remember

SpecCalls == Init /\ [][NextCalls]_vars

----------------------------------------------------------------------------
(* Calls on dates of any day of the month.  The function is exported and   *)
(* takes any time.Time; the rows it is given come from a date column.      *)

\* days of the month: the first, one in the middle, the last of November
Days == {1, 15, 30}

\* two consecutive months
DayMonths == {MonthAt(0), MonthAt(1)}

WithDay(t, d) == Date(t.year, t.month, d)

DayDates == {WithDay(m, d) : m \in DayMonths, d \in Days}

\* one subscription on any of the dates, its end not before its start
DaySubs ==
    {s \in [Price : {10}, StartDate : DayDates,
            EndDate : {Nil} \cup {<<e>> : e \in DayDates}] :
        s.EndDate = Nil \/ ~Before(s.EndDate[1], s.StartDate)}

\* subscriptions as ParseMonthYear dates them, on firsts of months
FirstSubs ==
    {s \in [Price : Prices, StartDate : DayMonths,
            EndDate : {Nil} \cup {<<e>> : e \in DayMonths}] :
        s.EndDate = Nil \/ ~Before(s.EndDate[1], s.StartDate)}

DayInputs ==
    {Input(subs, ps, pe) :
        subs \in {<<>>} \cup {<<s>> : s \in DaySubs}
                 \cup {<<s, t>> : s \in FirstSubs, t \in FirstSubs},
        ps \in {ZeroTime} \cup DayDates, pe \in DayDates}

CallDays ==
    /\ pc = "idle"
    /\ \E in \in DayInputs : Call(in)
    /\ UNCHANGED <<serviceVars, concVars, appVars, dbVars>>

NextDays ==
    \/ CallDays
    \/ LoopStep
    \/ Return

SpecDays == Init /\ [][NextDays]_vars

----------------------------------------------------------------------------
(* The core step by step: every iteration of the for loop of               *)
(* AddOverlapMonths is a step of its own, inside an iteration of the range *)
(* loop or in a call of the exported function by itself.  The map is       *)
(* passed by reference: the callee writes the caller's uniqueMonths.       *)

\* the frame of AddOverlapMonths at its entry: current and endMonth are the
\* firsts of the months of start and end
AddFrame(months, start, end) ==
    [pc |-> "loop", start |-> start, end |-> end, given |-> months,
     current |-> Date(start.year, start.month, 1),
     endMonth |-> Date(end.year, end.month, 1),
     monthsAdded |-> 0, steps |-> 0, ret |-> 0]

\* variant: the loop stops before the month of end
MonthLoopRunsBefore(f) == Before(f.current, f.endMonth)

\* the condition of the for loop: !current.After(endMonth)
MonthLoopRuns(f) == ~After(f.current, f.endMonth)

\* what an iteration of the range loop leaves in the history
Processed(monthsAdded, steps) == [monthsAdded |-> monthsAdded, steps |-> steps]

\* the dates of the calls of AddOverlapMonths by itself: those of any day
\* of two months, and the first of January of two years
AddDates == DayDates \cup {Date(2024, 1, 1), Date(2025, 1, 1)}

\* subscriptions whose EndDate points to the zero time
ZeroEndSubs == {Sub(p, s, <<ZeroTime>>) : p \in Prices, s \in DayMonths}

\* the arguments of the calls run step by step: the lists of DayInputs, and
\* lists with subscriptions whose EndDate points to the zero time
StepInputs ==
    {Input(subs, ps, pe) :
        subs \in {<<>>} \cup {<<s>> : s \in DaySubs \cup ZeroEndSubs}
                 \cup {<<s, t>> : s \in FirstSubs \cup ZeroEndSubs,
                                  t \in FirstSubs \cup ZeroEndSubs},
        ps \in {ZeroTime} \cup DayDates, pe \in DayDates}

\* a call of CalculateSubscriptionMetrics
CallSteps ==
    /\ pc = "idle"
    /\ aom.pc = "idle"
    /\ \E in \in StepInputs : Call(in)
    /\ UNCHANGED <<serviceVars, concVars, appVars, dbVars>>

\* a call of AddOverlapMonths by itself, on a map that holds any of the keys
\* of the months of a query
AddCall ==
    /\ pc = "idle"
    /\ aom.pc = "idle"
    /\ \E months \in SUBSET {MonthKey(m) : m \in WindowMonths},
          start \in AddDates, end \in AddDates :
          /\ uniqueMonths' = months
          /\ aom' = AddFrame(months, start, end)
    /\ UNCHANGED <<subscriptions, periodStart, periodEnd, unitPrice, totalCost,
                   idx, pc, ret, remembered, processed>>
    /\ UNCHANGED <<serviceVars, concVars, appVars, dbVars>>

\* an iteration of the range loop up to the overlap test: `continue`, or
\* the call of AddOverlapMonths on the effective interval
BodyStart ==
    /\ pc = "loop"
    /\ idx <= Len(subscriptions)
    /\ LET sub == subscriptions[idx]
           es  == EffectiveStart(sub, periodStart)
           ee  == EffectiveEnd(sub, periodEnd)
       IN  /\ unitPrice' = IF unitPrice = 0 THEN sub.Price ELSE unitPrice
           /\ IF NoOverlap(es, ee)
              THEN /\ idx' = idx + 1
                   /\ processed' = Append(processed, Processed(0, 0))
                   /\ UNCHANGED <<pc, aom>>
              ELSE /\ aom' = AddFrame(uniqueMonths, es, ee)
                   /\ pc' = "months"
                   /\ UNCHANGED <<idx, processed>>
    /\ UNCHANGED <<subscriptions, periodStart, periodEnd, totalCost,
                   uniqueMonths, ret, remembered>>
    /\ UNCHANGED <<serviceVars, concVars, appVars, dbVars>>

\* variant: monthsAdded counts every iteration
MonthStepCountAll ==
    /\ aom.pc = "loop"
    /\ MonthLoopRuns(aom)
    /\ uniqueMonths' = uniqueMonths \cup {MonthKey(aom.current)}
    /\ aom' = [aom EXCEPT !.monthsAdded = @ + 1,
                          !.current = AddDate(@, 1, 0),
                          !.steps = @ + 1]
    /\ UNCHANGED <<subscriptions, periodStart, periodEnd, unitPrice, totalCost,
                   idx, pc, ret, remembered, processed>>
    /\ UNCHANGED <<serviceVars, concVars, appVars, dbVars>>

\* one iteration of the for loop of AddOverlapMonths
MonthStep ==
    /\ aom.pc = "loop"
    /\ MonthLoopRuns(aom)
    /\ LET monthKey == MonthKey(aom.current)
       IN  /\ uniqueMonths' = uniqueMonths \cup {monthKey}
           /\ aom' = [aom EXCEPT
                        !.monthsAdded = IF monthKey \notin uniqueMonths
                                        THEN @ + 1 ELSE @,
                        !.current = AddDate(@, 1, 0),
                        !.steps = @ + 1]
    /\ UNCHANGED <<subscriptions, periodStart, periodEnd, unitPrice, totalCost,
                   idx, pc, ret, remembered, processed>>
    /\ UNCHANGED <<serviceVars, concVars, appVars, dbVars>>

\* return monthsAdded
AddReturn ==
    /\ aom.pc = "loop"
    /\ ~MonthLoopRuns(aom)
    /\ aom' = [aom EXCEPT !.pc = "done", !.ret = aom.monthsAdded]
    /\ UNCHANGED <<subscriptions, periodStart, periodEnd, unitPrice, totalCost,
                   uniqueMonths, idx, pc, ret, remembered, processed>>
    /\ UNCHANGED <<serviceVars, concVars, appVars, dbVars>>

\* variant: the months added are charged at unitPrice
BodyEndUnitPrice ==
    /\ pc = "months"
    /\ aom.pc = "done"
    /\ totalCost' = IF aom.ret > 0 THEN totalCost + unitPrice * aom.ret
                    ELSE totalCost
    /\ idx' = idx + 1
    /\ pc' = "loop"
    /\ processed' = Append(processed, Processed(aom.ret, aom.steps))
    /\ UNCHANGED <<subscriptions, periodStart, periodEnd, unitPrice,
                   uniqueMonths, ret, remembered, aom>>
    /\ UNCHANGED <<serviceVars, concVars, appVars, dbVars>>

\* the rest of the iteration, with the value AddOverlapMonths returned
BodyEnd ==
    /\ pc = "months"
    /\ aom.pc = "done"
    /\ totalCost' = IF aom.ret > 0
                    THEN totalCost + subscriptions[idx].Price * aom.ret
                    ELSE totalCost
    /\ idx' = idx + 1
    /\ pc' = "loop"
    /\ processed' = Append(processed, Processed(aom.ret, aom.steps))
    /\ UNCHANGED <<subscriptions, periodStart, periodEnd, unitPrice,
                   uniqueMonths, ret, remembered, aom>>
    /\ UNCHANGED <<serviceVars, concVars, appVars, dbVars>>

NextSteps ==
    \/ CallSteps
    \/ AddCall
    \/ BodyStart
    \/ MonthStep
    \/ AddReturn
    \/ BodyEnd
    \/ Return

SpecSteps == Init /\ [][NextSteps]_vars

\* the goroutine that runs the call is scheduled until the call returns
SpecStepsFair ==
    /\ SpecSteps
    /\ WF_vars(BodyStart)
    /\ WF_vars(MonthStep)
    /\ WF_vars(AddReturn)
    /\ WF_vars(BodyEnd)
    /\ WF_vars(Return)

----------------------------------------------------------------------------

(* The validations of the request layer.  An error is the name of the      *)
(* error variable of package validations, "nil" for no error.              *)

\* the months time.Parse("01-2006", _) can yield in the model
ParseYears == 2024..2025

ParseMonths == {Date(y, m, 1) : y \in ParseYears, m \in 1..12}

\* t.Format("01-2006"), "" for the zero time
FormatMonthYear(t) ==
    IF IsZero(t) THEN "" ELSE Pad2(t.month) \o "-" \o ToString(t.year)

\* the strings a date field of a request may hold: empty, months in the
\* layout "01-2006", and a month in another layout
DateStrings == {"", "11-2024", "12-2024", "01-2025", "2024-11"}

\* time.Parse("01-2006", value) on each of the strings: the first of the
\* month that is written so, an error for every other string
Parsed ==
    [value \in DateStrings |->
        LET hits == {t \in ParseMonths : FormatMonthYear(t) = value}
        IN  IF hits = {} THEN [err |-> TRUE, t |-> ZeroTime]
            ELSE [err |-> FALSE, t |-> CHOOSE t \in hits : TRUE]]

ParseMonthYear(value) == Parsed[value]

\* the strings uuid.Parse accepts
UUIDs == {"a0eebc99-9c0b-4ef8-bb6d-6bb9bd380a11"}

ValidateUserID(userID) ==
    IF userID = "" THEN "ErrEmptyUserID"
    ELSE IF userID \notin UUIDs THEN "ErrInvalidUserID"
    ELSE "nil"

ValidateServiceName(name) ==
    IF name = "" THEN "ErrInvalidServiceName" ELSE "nil"

ValidateStartDate(dateStr) ==
    LET p == ParseMonthYear(dateStr)
    IN  IF p.err THEN [err |-> "ErrInvalidStartDate", t |-> ZeroTime]
        ELSE [err |-> "nil", t |-> p.t]

\* variant: an end date equal to the start date is accepted
ValidateEndDateNotBefore(startDate, endStr) ==
    LET p == ParseMonthYear(endStr)
    IN  IF endStr = "" THEN [err |-> "nil", t |-> Nil]
        ELSE IF p.err THEN [err |-> "ErrInvalidEndDate", t |-> Nil]
        ELSE IF Before(p.t, startDate)
             THEN [err |-> "ErrEndDateBeforeStart", t |-> Nil]
        ELSE [err |-> "nil", t |-> <<p.t>>]

\* variant: any parsed end date is accepted
ValidateEndDateUnchecked(startDate, endStr) ==
    LET p == ParseMonthYear(endStr)
    IN  IF endStr = "" THEN [err |-> "nil", t |-> Nil]
        ELSE IF p.err THEN [err |-> "ErrInvalidEndDate", t |-> Nil]
        ELSE [err |-> "nil", t |-> <<p.t>>]

ValidateEndDate(startDate, endStr) ==
    LET p == ParseMonthYear(endStr)
    IN  IF endStr = "" THEN [err |-> "nil", t |-> Nil]
        ELSE IF p.err THEN [err |-> "ErrInvalidEndDate", t |-> Nil]
        ELSE IF ~After(p.t, startDate)
             THEN [err |-> "ErrEndDateBeforeStart", t |-> Nil]
        ELSE [err |-> "nil", t |-> <<p.t>>]

\* the status handleServiceError writes for a service error
HandleServiceError(err) ==
    IF err \in {"ErrInvalidServiceName", "ErrEmptyUserID", "ErrInvalidPrice",
                "ErrInvalidDateFormat", "ErrInvalidStartDate",
                "ErrInvalidEndDate", "ErrEndDateBeforeStart",
                "ErrInvalidSubscriptionID", "ErrInvalidUserID"} THEN 400
    ELSE IF err = "ErrSubscriptionNotFound" THEN 404
    ELSE IF err = "ErrSubscriptionExists" THEN 409
    ELSE 500

\* what a handler writes: the status of the error, or its success status
Status(err, success) == IF err = "nil" THEN success ELSE HandleServiceError(err)

----------------------------------------------------------------------------
(* The repository over the subscriptions table, a set of rows with         *)
(* distinct primary keys.  The database itself does not fail in the model. *)

Row(id, req, start, end) ==
    [ID |-> id, UserID |-> req.UserID, ServiceName |-> req.ServiceName,
     Price |-> req.Price, StartDate |-> start, EndDate |-> end]

\* First(&sub, id): the row, or nil for gorm.ErrRecordNotFound
GetSubscriptionByID(table, id) ==
    LET hits == {r \in table : r.ID = id}
    IN  IF hits = {} THEN Nil ELSE <<CHOOSE r \in hits : TRUE>>

\* Save(sub): every column of the row with sub's key is written
SaveSubscription(table, sub) == {r \in table : r.ID # sub.ID} \cup {sub}

\* variant: nothing is deleted
DeleteNoRow(table, id) == table

\* Delete(&models.Subscription{}, id)
DeleteSubscriptionByID(table, id) == {r \in table : r.ID # id}

\* the sequences that list every element of a set once
Orderings(S) ==
    {f \in [1..Cardinality(S) -> S] : \A i, j \in 1..Cardinality(S) :
                                        i # j => f[i] # f[j]}

\* Where("user_id = ? AND service_name = ?").Find: the rows, in an order
\* the query does not fix
FindSubscriptionsByUserIDandServiceName(table, userID, serviceName) ==
    Orderings({r \in table : r.UserID = userID /\ r.ServiceName = serviceName})

----------------------------------------------------------------------------
(* service.SubscriptionService: one action per method, from the request    *)
(* to the response of its handler                                          *)

Response(op, id, req, err, success) ==
    [op |-> op, id |-> id, req |-> req, before |-> store, err |-> err,
     status |-> Status(err, success)]

\* the date strings of the requests that write rows
RowDateStrings == {"", "11-2024", "12-2024", "2024-11"}

\* a user and the bodies that bind, with every pair of date strings; and
\* requests without a user id, with one that is no UUID, and without a
\* service name, which the binding of the handler refuses and another
\* caller of the service may pass
CreateRequests ==
    [ServiceName : {"Netflix"}, Price : {10}, UserID : UUIDs,
     StartDate : RowDateStrings, EndDate : RowDateStrings]
    \cup [ServiceName : {"", "Netflix"}, Price : {10},
          UserID : UUIDs \cup {"", "user"},
          StartDate : {"11-2024"}, EndDate : {""}]

\* bodies without and with service_name and price, with every pair of date
\* strings
UpdateRequests ==
    {[ServiceName |-> f.name, Price |-> f.price, StartDate |-> s, EndDate |-> e] :
        f \in {[name |-> "", price |-> 0], [name |-> "Spotify", price |-> 20]},
        s \in RowDateStrings, e \in RowDateStrings}

\* the first error of CreateSubscription's validations, in their order
CreateError(req) ==
    LET start == ValidateStartDate(req.StartDate)
        end   == ValidateEndDate(start.t, req.EndDate)
    IN  IF ValidateUserID(req.UserID) # "nil" THEN ValidateUserID(req.UserID)
        ELSE IF start.err # "nil" THEN start.err
        ELSE IF end.err # "nil" THEN end.err
        ELSE ValidateServiceName(req.ServiceName)

CreateSubscription(req) ==
    LET start == ValidateStartDate(req.StartDate)
        end   == ValidateEndDate(start.t, req.EndDate)
        err   == CreateError(req)
    IN  /\ err = "nil" => nextID <= MaxIDs
        /\ IF err = "nil"
           THEN /\ store' = store \cup {Row(nextID, req, start.t, end.t)}
                /\ nextID' = nextID + 1
           ELSE UNCHANGED <<store, nextID>>
        /\ last' = Response("CreateSubscription", 0, req, err, 201)
        /\ UNCHANGED <<now, coreVars, concVars, appVars, dbVars>>

\* the error GetSubscription returns
GetError(table, id) ==
    IF GetSubscriptionByID(table, id) = Nil THEN "ErrSubscriptionNotFound"
    ELSE "nil"

GetSubscription(id) ==
    /\ last' = Response("GetSubscription", id, <<>>, GetError(store, id), 200)
    /\ UNCHANGED <<store, nextID, now, coreVars, concVars, appVars, dbVars>>

\* the body of UpdateSubscriptionByID on the fetched row: the error of the
\* first failing validation, and the row as it stands at that point
UpdateRow(sub, req) ==
    LET named   == IF req.ServiceName # "" /\ ValidateServiceName(req.ServiceName) = "nil"
                   THEN [sub EXCEPT !.ServiceName = req.ServiceName] ELSE sub
        start   == ValidateStartDate(req.StartDate)
        started == IF req.StartDate # "" /\ start.err = "nil"
                   THEN [named EXCEPT !.StartDate = start.t] ELSE named
        priced  == IF req.Price > 0
                   THEN [started EXCEPT !.Price = req.Price] ELSE started
        end     == ValidateEndDate(priced.StartDate, req.EndDate)
    IN  IF req.ServiceName # "" /\ ValidateServiceName(req.ServiceName) # "nil"
        THEN [err |-> ValidateServiceName(req.ServiceName), sub |-> sub]
        ELSE IF req.StartDate # "" /\ start.err # "nil"
        THEN [err |-> start.err, sub |-> named]
        ELSE IF req.EndDate = ""
        THEN [err |-> "nil", sub |-> [priced EXCEPT !.EndDate = Nil]]
        ELSE IF end.err # "nil"
        THEN [err |-> end.err, sub |-> priced]
        ELSE [err |-> "nil", sub |-> [priced EXCEPT !.EndDate = end.t]]

\* variant: the row is saved as it stands when a validation fails
UpdateSubscriptionByIDSavesFirst(id, req) ==
    LET found == GetSubscriptionByID(store, id)
    IN  /\ IF found = Nil
           THEN /\ last' = Response("UpdateSubscriptionByID", id, req,
                                    "ErrSubscriptionNotFound", 200)
                /\ UNCHANGED store
           ELSE LET u == UpdateRow(found[1], req)
                IN  /\ last' = Response("UpdateSubscriptionByID", id, req,
                                        u.err, 200)
                    /\ store' = SaveSubscription(store, u.sub)
        /\ UNCHANGED <<nextID, now, coreVars, concVars, appVars, dbVars>>

UpdateSubscriptionByID(id, req) ==
    LET found == GetSubscriptionByID(store, id)
    IN  /\ IF found = Nil
           THEN /\ last' = Response("UpdateSubscriptionByID", id, req,
                                    "ErrSubscriptionNotFound", 200)
                /\ UNCHANGED store
           ELSE LET u == UpdateRow(found[1], req)
                IN  /\ last' = Response("UpdateSubscriptionByID", id, req,
                                        u.err, 200)
                    /\ store' = IF u.err = "nil"
                                THEN SaveSubscription(store, u.sub)
                                ELSE store
        /\ UNCHANGED <<nextID, now, coreVars, concVars, appVars, dbVars>>

DeleteSubscription(id) ==
    LET err == GetError(store, id)
    IN  /\ last' = Response("DeleteSubscription", id, <<>>, err, 204)
        /\ store' = IF err = "nil" THEN DeleteSubscriptionByID(store, id)
                    ELSE store
        /\ UNCHANGED <<nextID, now, coreVars, concVars, appVars, dbVars>>

\* the ids a request may name: every key the table assigns, and one more
RequestIDs == 1..(MaxIDs + 1)

Create == \E req \in CreateRequests : CreateSubscription(req)

Get == \E id \in RequestIDs : GetSubscription(id)

Update == \E id \in RequestIDs, req \in UpdateRequests : UpdateSubscriptionByID(id, req)

Delete == \E id \in RequestIDs : DeleteSubscription(id)

NextService ==
    \/ Create
    \/ Get
    \/ Update
    \/ Delete

SpecService == Init /\ [][NextService]_vars

----------------------------------------------------------------------------
(* GetUserSubscriptionSummary: the validations, the query and the call of  *)
(* the core, whose loop then runs as above                                 *)

\* the instants time.Now() may return: before and after the months a
\* request can name
Clock == {Date(2024, 11, 15), Date(2025, 2, 1)}

SummaryUser == CHOOSE u \in UUIDs : TRUE

StoredRow(id, price, start, end) ==
    [ID |-> id, UserID |-> SummaryUser, ServiceName |-> "Netflix",
     Price |-> price, StartDate |-> start, EndDate |-> end]

\* tables CreateSubscription can have filled: none, one and two rows
SummaryTables ==
    {{},
     {StoredRow(1, 10, Date(2024, 11, 1), Nil)},
     {StoredRow(1, 10, Date(2024, 11, 1), <<Date(2024, 12, 1)>>),
      StoredRow(2, 20, Date(2024, 12, 1), Nil)}}

SummaryRequests ==
    [UserID : UUIDs \cup {"", "user"}, ServiceName : {"", "Netflix"},
     From : DateStrings, To : DateStrings]

InitSummary ==
    /\ CoreInit /\ CallsInit /\ AppInit /\ DbInit
    /\ store \in SummaryTables
    /\ nextID = Cardinality(store) + 1
    /\ last = NoCall
    /\ now \in Clock

\* periodStart: time.Time{} when "from" is empty
SummaryStart(req) ==
    IF req.From = "" THEN [err |-> "nil", t |-> ZeroTime]
    ELSE ValidateStartDate(req.From)

\* periodEnd: a pointer to time.Now() when "to" is empty
SummaryEnd(req, pStart, clock) ==
    IF req.To = "" THEN [err |-> "nil", t |-> <<clock>>]
    ELSE ValidateEndDate(pStart, req.To)

\* the first error of the validations, in their order
SummaryError(req, clock) ==
    LET start == SummaryStart(req)
    IN  IF ValidateUserID(req.UserID) # "nil" THEN ValidateUserID(req.UserID)
        ELSE IF ValidateServiceName(req.ServiceName) # "nil"
        THEN ValidateServiceName(req.ServiceName)
        ELSE IF start.err # "nil" THEN start.err
        ELSE SummaryEnd(req, start.t, clock).err

GetUserSubscriptionSummary(req) ==
    LET err   == SummaryError(req, now)
        start == SummaryStart(req)
        end   == SummaryEnd(req, start.t, now)
    IN  /\ last' = Response("GetUserSubscriptionSummary", 0, req, err, 200)
        /\ IF err # "nil" THEN UNCHANGED coreVars
           ELSE \E subs \in FindSubscriptionsByUserIDandServiceName(
                                store, req.UserID, req.ServiceName) :
                    Call(Input(subs, start.t, end.t[1]))
        /\ UNCHANGED <<store, nextID, now, concVars, appVars, dbVars>>

Summary ==
    /\ pc = "idle"
    /\ last = NoCall
    /\ \E req \in SummaryRequests : GetUserSubscriptionSummary(req)

NextSummary ==
    \/ Summary
    \/ LoopStep
    \/ Return

SpecSummary == InitSummary /\ [][NextSummary]_vars

----------------------------------------------------------------------------
(* Summary requests served concurrently, one goroutine per request: each   *)
(* call of CalculateSubscriptionMetrics has its own arguments and locals,  *)
(* and the iterations of the calls interleave.                             *)

Requests == 1..NumRequests

\* the arguments of the concurrent calls: the scenarios, and the first with
\* its list reversed
ConcInputs ==
    {ScenarioOpen, ScenarioClosed,
     Input(<<ScenarioB, ScenarioA>>, ScenarioOpen.periodStart,
           ScenarioOpen.periodEnd)}

\* the frame of a call at its entry; given and interleaved are history
Frame(in) ==
    [subscriptions |-> in.subscriptions, periodStart |-> in.periodStart,
     periodEnd |-> in.periodEnd, locals |-> FreshLocals, idx |-> 1,
     pc |-> "loop", ret |-> NoResult, given |-> in, interleaved |-> FALSE]

\* variant: the month map is a package variable, shared by the calls
CallLocalsShared(c, r) ==
    [c[r].locals EXCEPT
        !.uniqueMonths = UNION {c[q].locals.uniqueMonths : q \in DOMAIN c}]

\* the locals call r works on
CallLocals(c, r) == c[r].locals

\* some other call is between two iterations of its loop
OtherInLoop(c, r) ==
    \E q \in DOMAIN c \ {r} : c[q].pc = "loop" /\ c[q].idx > 1

Arrive(r, in) ==
    /\ r \notin DOMAIN calls
    /\ calls' = calls @@ (r :> Frame(in))
    /\ UNCHANGED <<coreVars, serviceVars, appVars, dbVars>>

\* one iteration of the range loop of call r
ConcLoopStep(r) ==
    /\ r \in DOMAIN calls
    /\ calls[r].pc = "loop"
    /\ calls[r].idx <= Len(calls[r].subscriptions)
    /\ calls' = [calls EXCEPT
                    ![r].locals = LoopBody(CallLocals(calls, r),
                                           calls[r].subscriptions[calls[r].idx],
                                           calls[r].periodStart,
                                           calls[r].periodEnd),
                    ![r].idx = @ + 1,
                    ![r].interleaved = @ \/ OtherInLoop(calls, r)]
    /\ UNCHANGED <<coreVars, serviceVars, appVars, dbVars>>

ConcReturn(r) ==
    /\ r \in DOMAIN calls
    /\ calls[r].pc = "loop"
    /\ calls[r].idx > Len(calls[r].subscriptions)
    /\ calls' = [calls EXCEPT
                    ![r].ret = Result(CallLocals(calls, r)),
                    ![r].pc = "done"]
    /\ UNCHANGED <<coreVars, serviceVars, appVars, dbVars>>

Arrivals == \E r \in Requests, in \in ConcInputs : Arrive(r, in)

ConcLoopSteps == \E r \in Requests : ConcLoopStep(r)

ConcReturns == \E r \in Requests : ConcReturn(r)

NextConc ==
    \/ Arrivals
    \/ ConcLoopSteps
    \/ ConcReturns

SpecConc == Init /\ [][NextConc]_vars

----------------------------------------------------------------------------
(* App.Run: the goroutine around ListenAndServe, the select, and the       *)
(* shutdown.  The signals and the cancellation come from outside.          *)

\* a.shutdownTimeout, in seconds
shutdownTimeout == 30

\* the errors ListenAndServe returns of itself: the listener cannot be
\* opened, or accepting fails
ListenErrors == {"ErrListen", "ErrAccept"}

\* the signals registered with signal.Notify
Signals == {"SIGINT", "SIGTERM"}

\* err != nil && !errors.Is(err, http.ErrServerClosed)
ShouldSend(err) == err # "nil" /\ err # "ErrServerClosed"

\* a receive from ch can proceed
Ready(ch) == ch.buf # <<>> \/ ch.closed

\* the value a receive yields: the buffered one, the zero value once the
\* channel is closed and empty
Received(ch) == IF ch.buf # <<>> THEN Head(ch.buf) ELSE "nil"

\* variant: the error of Close alone is returned
CloseErrorOnly(err, closeErr) == closeErr

\* what Run returns after a failed Shutdown: err, or errors.Join(err,
\* closeErr) if Close failed too, named by the two names
ShutdownError(err, closeErr) ==
    IF closeErr # "nil" THEN err \o "+" \o closeErr ELSE err

\* signal.Notify and the go statement
RunStart ==
    /\ run.pc = "start"
    /\ run' = [run EXCEPT !.pc = "select", !.serve = "listen"]
    /\ UNCHANGED <<server, serverErrChan, quitChan, ctxDone>>
    /\ UNCHANGED <<coreVars, serviceVars, concVars, dbVars>>

\* the process receives a registered signal: the runtime sends it to
\* quitChan without blocking, and drops it when the buffer is full
Signal ==
    /\ run.pc # "start"
    /\ \E sig \in Signals :
          quitChan' = IF Len(quitChan) < 1 THEN Append(quitChan, sig)
                      ELSE quitChan
    /\ run' = [run EXCEPT !.triggered = TRUE]
    /\ UNCHANGED <<server, serverErrChan, ctxDone>>
    /\ UNCHANGED <<coreVars, serviceVars, concVars, dbVars>>

\* the owner of a.ctx cancels it
Cancel ==
    /\ ~ctxDone
    /\ ctxDone' = TRUE
    /\ run' = [run EXCEPT !.triggered = TRUE]
    /\ UNCHANGED <<server, serverErrChan, quitChan>>
    /\ UNCHANGED <<coreVars, serviceVars, concVars, dbVars>>

\* ListenAndServe is entered: it serves, or fails to open the listener, or
\* finds the server shut down already
Listen ==
    /\ run.serve = "listen"
    /\ \/ /\ server = "new"
          /\ server' = "listening"
          /\ run' = [run EXCEPT !.serve = "serving"]
       \/ /\ server = "new"
          /\ server' = "failed"
          /\ run' = [run EXCEPT !.serve = "returned", !.serveErr = "ErrListen",
                                !.failedFirst = ~run.triggered]
       \/ /\ server \in {"shutdown", "closed"}
          /\ server' = server
          /\ run' = [run EXCEPT !.serve = "returned",
                                !.serveErr = "ErrServerClosed"]
    /\ UNCHANGED <<serverErrChan, quitChan, ctxDone>>
    /\ UNCHANGED <<coreVars, serviceVars, concVars, dbVars>>

\* ListenAndServe returns while serving: accepting fails, or the server
\* has been shut down or closed
ServeReturns ==
    /\ run.serve = "serving"
    /\ \/ /\ server = "listening"
          /\ server' = "failed"
          /\ run' = [run EXCEPT !.serve = "returned", !.serveErr = "ErrAccept",
                                !.failedFirst = ~run.triggered]
       \/ /\ server \in {"shutdown", "closed"}
          /\ server' = server
          /\ run' = [run EXCEPT !.serve = "returned",
                                !.serveErr = "ErrServerClosed"]
    /\ UNCHANGED <<serverErrChan, quitChan, ctxDone>>
    /\ UNCHANGED <<coreVars, serviceVars, concVars, dbVars>>

\* a send on ch can proceed: the channel is closed (the send panics) or
\* its buffer has room; otherwise the sender waits
CanSend(ch) == ch.closed \/ Len(ch.buf) < ch.cap

\* a.serverErrChan <- err, for the errors that are sent; the goroutine
\* waits while the buffer is full, and panics if the channel is closed
GoSend ==
    /\ run.serve = "returned"
    /\ ShouldSend(run.serveErr) => CanSend(serverErrChan)
    /\ IF ~ShouldSend(run.serveErr)
       THEN /\ run' = [run EXCEPT !.serve = "close"]
            /\ UNCHANGED serverErrChan
       ELSE IF serverErrChan.closed
       THEN /\ run' = [run EXCEPT !.serve = "panic"]
            /\ UNCHANGED serverErrChan
       ELSE /\ serverErrChan' =
                   [serverErrChan EXCEPT !.buf = Append(@, run.serveErr)]
            /\ run' = [run EXCEPT !.serve = "close", !.sends = @ + 1]
    /\ UNCHANGED <<server, quitChan, ctxDone>>
    /\ UNCHANGED <<coreVars, serviceVars, concVars, dbVars>>

\* close(a.serverErrChan), a panic if the channel is closed already
GoClose ==
    /\ run.serve = "close"
    /\ IF serverErrChan.closed
       THEN /\ run' = [run EXCEPT !.serve = "panic"]
            /\ UNCHANGED serverErrChan
       ELSE /\ serverErrChan' = [serverErrChan EXCEPT !.closed = TRUE]
            /\ run' = [run EXCEPT !.serve = "exit", !.chanCloses = @ + 1]
    /\ UNCHANGED <<server, quitChan, ctxDone>>
    /\ UNCHANGED <<coreVars, serviceVars, concVars, dbVars>>

\* case err := <-a.serverErrChan: return err
SelectServerErr ==
    /\ run.pc = "select"
    /\ Ready(serverErrChan)
    /\ run' = [run EXCEPT !.pc = "returned", !.branch = "serverErr",
                          !.ret = Received(serverErrChan)]
    /\ serverErrChan' = [serverErrChan EXCEPT
                            !.buf = IF @ # <<>> THEN Tail(@) ELSE @]
    /\ UNCHANGED <<server, quitChan, ctxDone>>
    /\ UNCHANGED <<coreVars, serviceVars, concVars, dbVars>>

\* case <-a.quitChan
SelectQuit ==
    /\ run.pc = "select"
    /\ quitChan # <<>>
    /\ quitChan' = Tail(quitChan)
    /\ run' = [run EXCEPT !.pc = "shutdown", !.branch = "quit"]
    /\ UNCHANGED <<server, serverErrChan, ctxDone>>
    /\ UNCHANGED <<coreVars, serviceVars, concVars, dbVars>>

\* case <-a.ctx.Done()
SelectCtxDone ==
    /\ run.pc = "select"
    /\ ctxDone
    /\ run' = [run EXCEPT !.pc = "shutdown", !.branch = "ctx"]
    /\ UNCHANGED <<server, serverErrChan, quitChan, ctxDone>>
    /\ UNCHANGED <<coreVars, serviceVars, concVars, dbVars>>

\* a.Server.Shutdown(shutdownCtx): the server stops accepting; the call
\* returns nil, or the context's error when the timeout passes first
Shutdown ==
    /\ run.pc = "shutdown"
    /\ server' = "shutdown"
    /\ \E err \in {"nil", "ErrDeadlineExceeded"} :
          run' = [run EXCEPT
                    !.shutdowns = Append(@, shutdownTimeout),
                    !.shutdownErr = err,
                    !.pc = IF err = "nil" THEN "returned" ELSE "close",
                    !.ret = IF err = "nil" THEN "nil" ELSE @]
    /\ UNCHANGED <<serverErrChan, quitChan, ctxDone>>
    /\ UNCHANGED <<coreVars, serviceVars, concVars, dbVars>>

\* a.Server.Close() after a failed Shutdown, and the return of the error
Close ==
    /\ run.pc = "close"
    /\ server' = "closed"
    /\ \E closeErr \in {"nil", "ErrClose"} :
          run' = [run EXCEPT
                    !.closes = @ + 1,
                    !.pc = "returned",
                    !.ret = ShutdownError(run.shutdownErr, closeErr)]
    /\ UNCHANGED <<serverErrChan, quitChan, ctxDone>>
    /\ UNCHANGED <<coreVars, serviceVars, concVars, dbVars>>

NextRun ==
    \/ RunStart
    \/ Signal
    \/ Cancel
    \/ Listen
    \/ ServeReturns
    \/ GoSend
    \/ GoClose
    \/ SelectServerErr
    \/ SelectQuit
    \/ SelectCtxDone
    \/ Shutdown
    \/ Close

SpecRun == Init /\ [][NextRun]_vars

\* the goroutine is scheduled: a send or a close that can proceed does
SpecRunFair ==
    /\ SpecRun
    /\ WF_vars(GoSend)
    /\ WF_vars(GoClose)

----------------------------------------------------------------------------
(* database.NewPostgresConnection, called from several goroutines.         *)
(* once.Do(f) lets the first caller run f, holds every other caller until  *)
(* f has returned, and lets later callers pass.  Fatal ends the process.   *)

Callers == 1..NumCallers

\* the configurations a caller may pass
Configs == {"primary", "replica"}

\* the frame of a call at its entry; opens and assigns count what it did
CallerFrame(config) ==
    [pc |-> "once", dsn |-> config, ret |-> Nil, opens |-> 0, assigns |-> 0]

\* no caller has called Fatal
Alive == \A c \in DOMAIN callers : callers[c].pc # "exit"

\* dsn := fmt.Sprintf(...), up to once.Do
NewPostgresConnection(c, config) ==
    /\ Alive
    /\ c \notin DOMAIN callers
    /\ callers' = callers @@ (c :> CallerFrame(config))
    /\ UNCHANGED <<once, PgDriverInstance, opened>>
    /\ UNCHANGED <<coreVars, serviceVars, concVars, appVars>>

\* variant: every caller runs the function
OnceDoEveryCaller(c) ==
    /\ Alive
    /\ c \in DOMAIN callers
    /\ callers[c].pc = "once"
    /\ callers' = [callers EXCEPT ![c].pc = "open"]
    /\ UNCHANGED <<once, PgDriverInstance, opened>>
    /\ UNCHANGED <<coreVars, serviceVars, concVars, appVars>>

\* once.Do: the first caller enters the function; a caller that finds it
\* done passes; a caller that finds it running waits
OnceDo(c) ==
    /\ Alive
    /\ c \in DOMAIN callers
    /\ callers[c].pc = "once"
    /\ once # "running"
    /\ IF once = "fresh"
       THEN /\ once' = "running"
            /\ callers' = [callers EXCEPT ![c].pc = "open"]
       ELSE /\ once' = once
            /\ callers' = [callers EXCEPT ![c].pc = "return"]
    /\ UNCHANGED <<PgDriverInstance, opened>>
    /\ UNCHANGED <<coreVars, serviceVars, concVars, appVars>>

\* gorm.Open(postgres.Open(dsn)): a connection, or Fatal
GormOpen(c) ==
    /\ Alive
    /\ c \in DOMAIN callers
    /\ callers[c].pc = "open"
    /\ \/ /\ opened' = Append(opened, callers[c].dsn)
          /\ callers' = [callers EXCEPT ![c].pc = "db", ![c].opens = @ + 1]
       \/ /\ opened' = opened
          /\ callers' = [callers EXCEPT ![c].pc = "exit"]
    /\ UNCHANGED <<once, PgDriverInstance>>
    /\ UNCHANGED <<coreVars, serviceVars, concVars, appVars>>

\* db.DB() and the pool settings: the *sql.DB, or Fatal
SqlDB(c) ==
    /\ Alive
    /\ c \in DOMAIN callers
    /\ callers[c].pc = "db"
    /\ \/ callers' = [callers EXCEPT ![c].pc = "assign"]
       \/ callers' = [callers EXCEPT ![c].pc = "exit"]
    /\ UNCHANGED <<once, PgDriverInstance, opened>>
    /\ UNCHANGED <<coreVars, serviceVars, concVars, appVars>>

\* PgDriverInstance = &PgDriver{...}, and the end of the function: the
\* instance is the connection this caller opened, the last of opened
AssignInstance(c) ==
    /\ Alive
    /\ c \in DOMAIN callers
    /\ callers[c].pc = "assign"
    /\ PgDriverInstance' = <<[conn |-> Len(opened), dsn |-> callers[c].dsn]>>
    /\ once' = "done"
    /\ callers' = [callers EXCEPT ![c].pc = "return", ![c].assigns = @ + 1]
    /\ UNCHANGED opened
    /\ UNCHANGED <<coreVars, serviceVars, concVars, appVars>>

\* return PgDriverInstance
ReturnInstance(c) ==
    /\ Alive
    /\ c \in DOMAIN callers
    /\ callers[c].pc = "return"
    /\ callers' = [callers EXCEPT ![c].pc = "done", ![c].ret = PgDriverInstance]
    /\ UNCHANGED <<once, PgDriverInstance, opened>>
    /\ UNCHANGED <<coreVars, serviceVars, concVars, appVars>>

Connect == \E c \in Callers, config \in Configs : NewPostgresConnection(c, config)

EnterOnce == \E c \in Callers : OnceDo(c)

OpenConnection == \E c \in Callers : GormOpen(c)

GetSqlDB == \E c \in Callers : SqlDB(c)

Assign == \E c \in Callers : AssignInstance(c)

ReturnDriver == \E c \in Callers : ReturnInstance(c)

NextDb ==
    \/ Connect
    \/ EnterOnce
    \/ OpenConnection
    \/ GetSqlDB
    \/ Assign
    \/ ReturnDriver

SpecDb == Init /\ [][NextDb]_vars

----------------------------------------------------------------------------
(* Calendar months, as the claims speak of them *)

CalendarYears == {m.year : m \in WindowMonths} \cup {ScenarioOpen.periodEnd.year}

\* every calendar month of the years the arguments lie in, by its first day
Calendar == {Date(y, m, 1) : y \in CalendarYears, m \in 1..12}

MonthOf(t) == Date(t.year, t.month, 1)

\* month m lies inside the window
InWindow(m, pStart, pEnd) ==
    ~Before(m, MonthOf(pStart)) /\ ~After(m, MonthOf(pEnd))

\* month m lies in the active range of sub; without end date, for ever
CoversMonth(sub, m) ==
    /\ ~Before(m, MonthOf(sub.StartDate))
    /\ sub.EndDate = Nil \/ ~After(m, MonthOf(sub.EndDate[1]))

\* the months inside the window that sub covers
MonthsOfSub(sub, pStart, pEnd) ==
    {m \in Calendar : InWindow(m, pStart, pEnd) /\ CoversMonth(sub, m)}

\* the months inside the window that at least one subscription covers
CoveredMonths(subs, pStart, pEnd) ==
    LET window == {m \in Calendar : InWindow(m, pStart, pEnd)}
    IN  {m \in window : \E i \in 1..Len(subs) : CoversMonth(subs[i], m)}

\* the price of the first subscription of the list covering month m
FirstCoveringPrice(subs, m) ==
    LET i == CHOOSE k \in 1..Len(subs) :
                 /\ CoversMonth(subs[k], m)
                 /\ \A j \in 1..(k - 1) : ~CoversMonth(subs[j], m)
    IN  subs[i].Price

RECURSIVE SumFirstPrices(_, _)
SumFirstPrices(subs, months) ==
    IF months = {} THEN 0
    ELSE LET m == CHOOSE x \in months : TRUE
         IN  FirstCoveringPrice(subs, m) + SumFirstPrices(subs, months \ {m})

WindowOrdered == ~After(periodStart, periodEnd)

----------------------------------------------------------------------------
(* C1: whenever periodStart <= periodEnd, the uniqueMonths a call returns  *)
(* is the number of distinct calendar months inside the window that at     *)
(* least one subscription covers, each counted once.                       *)
C1_UniqueMonthsAreCoveredMonths ==
    (pc = "done" /\ WindowOrdered) =>
        ret.uniqueMonths =
            Cardinality(CoveredMonths(subscriptions, periodStart, periodEnd))

\* a finished call on two subscriptions that share a month of the window
C1_Witness ==
    /\ pc = "done"
    /\ WindowOrdered
    /\ Len(subscriptions) = 2
    /\ MonthsOfSub(subscriptions[1], periodStart, periodEnd)
         \cap MonthsOfSub(subscriptions[2], periodStart, periodEnd) # {}
    /\ ret.uniqueMonths <
         Cardinality(MonthsOfSub(subscriptions[1], periodStart, periodEnd))
         + Cardinality(MonthsOfSub(subscriptions[2], periodStart, periodEnd))

(* C2: totalCost is the sum, over the counted months, of the price of the  *)
(* first subscription in input order covering the month; a later           *)
(* subscription adds nothing for a month already counted.                  *)
C2_CostOfFirstCoveringSubscription ==
    pc = "done" =>
        ret.totalCost =
            SumFirstPrices(subscriptions,
                           CoveredMonths(subscriptions, periodStart, periodEnd))

\* prices 10 then 20 covering a common month of the window
C2_Witness ==
    /\ pc = "done"
    /\ Len(subscriptions) = 2
    /\ subscriptions[1].Price = 10
    /\ subscriptions[2].Price = 20
    /\ MonthsOfSub(subscriptions[1], periodStart, periodEnd)
         \cap MonthsOfSub(subscriptions[2], periodStart, periodEnd) # {}
    /\ ret.totalCost > 0

(* C3, as stated: for A = {100, 01-2024, no end} then B = {200, 06-2024,   *)
(* no end} and the window 01-2024 to 08-2024 the call returns              *)
(* uniqueMonths = 8 and totalCost = 1100.                                  *)
C3_Original ==
    (pc = "done" /\ CurrentInput = ScenarioOpen) =>
        (ret.uniqueMonths = 8 /\ ret.totalCost = 1100)

(* C3, amended: for that input the call returns uniqueMonths = 8 and       *)
(* totalCost = 800: A, processed first and open-ended, covers all eight    *)
(* months at 100, and B adds no month.                                     *)
C3_ScenarioOpenResult ==
    (pc = "done" /\ CurrentInput = ScenarioOpen) =>
        (ret.uniqueMonths = 8 /\ ret.totalCost = 800)

\* the call on the scenario has finished
C3_Witness == pc = "done" /\ CurrentInput = ScenarioOpen

\* subscription i of the list adds a month that no earlier one covers
Contributes(subs, i, pStart, pEnd) ==
    MonthsOfSub(subs[i], pStart, pEnd)
        \ CoveredMonths(SubSeq(subs, 1, i - 1), pStart, pEnd) # {}

(* C4: unitPrice is the price of the first subscription, in input order,   *)
(* that contributes at least one newly counted month; a subscription that  *)
(* adds no month never determines it.                                      *)
C4_UnitPriceOfFirstContributor ==
    pc = "done" =>
        LET C == {i \in 1..Len(subscriptions) :
                     Contributes(subscriptions, i, periodStart, periodEnd)}
        IN  IF C = {} THEN ret.unitPrice = 0
            ELSE ret.unitPrice =
                     subscriptions[CHOOSE i \in C : \A j \in C : i <= j].Price

\* sub ends before the window starts or starts after the window ends
OutsideWindow(sub, pStart, pEnd) ==
    \/ sub.EndDate # Nil /\ Before(sub.EndDate[1], pStart)
    \/ After(sub.StartDate, pEnd)

RemoveAt(subs, i) ==
    [k \in 1..(Len(subs) - 1) |-> IF k < i THEN subs[k] ELSE subs[k + 1]]

(* C5: a subscription lying entirely before periodStart or entirely after  *)
(* periodEnd contributes nothing: uniqueMonths and totalCost are the same  *)
(* with it in the list, at any position, as with it removed.               *)
C5_OutsideWindowContributesNothing ==
    pc = "done" =>
        \A i \in 1..Len(subscriptions) :
            OutsideWindow(subscriptions[i], periodStart, periodEnd) =>
                LET r == CalculateSubscriptionMetrics(
                             RemoveAt(subscriptions, i), periodStart, periodEnd)
                IN  /\ r.uniqueMonths = ret.uniqueMonths
                    /\ r.totalCost = ret.totalCost

\* a subscription that ended before the window, ahead of one that counts
C5_Witness ==
    /\ pc = "done"
    /\ Len(subscriptions) = 2
    /\ subscriptions[1].EndDate # Nil
    /\ OutsideWindow(subscriptions[1], periodStart, periodEnd)
    /\ ret.uniqueMonths > 0

(* C6: a subscription without end date counts as active through the end   *)
(* of the window: the result is that of the same list with its EndDate     *)
(* set to periodEnd, and a single such subscription starting at or before  *)
(* periodEnd has every month from max(start, periodStart) through          *)
(* periodEnd's month counted.                                              *)
C6_OngoingRunsToPeriodEnd ==
    pc = "done" =>
        /\ \A i \in 1..Len(subscriptions) :
               subscriptions[i].EndDate = Nil =>
                   CalculateSubscriptionMetrics(
                       [subscriptions EXCEPT ![i].EndDate = <<periodEnd>>],
                       periodStart, periodEnd) = ret
        /\ ( /\ Len(subscriptions) = 1
             /\ subscriptions[1].EndDate = Nil
             /\ ~After(subscriptions[1].StartDate, periodEnd) ) =>
               uniqueMonths =
                   {MonthKey(m) : m \in
                       {c \in Calendar :
                           /\ ~Before(c, MonthOf(subscriptions[1].StartDate))
                           /\ ~Before(c, MonthOf(periodStart))
                           /\ ~After(c, MonthOf(periodEnd))}}

\* a single subscription without end date, counted over several months
C6_Witness ==
    /\ pc = "done"
    /\ Len(subscriptions) = 1
    /\ subscriptions[1].EndDate = Nil
    /\ ~After(subscriptions[1].StartDate, periodEnd)
    /\ ret.uniqueMonths >= 2

Permute(subs, f) == [i \in 1..Len(subs) |-> subs[f[i]]]

(* C7: uniqueMonths does not depend on the processing order: every         *)
(* permutation of the list gives the same uniqueMonths.                    *)
C7_UniqueMonthsOrderIndependent ==
    pc = "done" =>
        \A f \in Permutations(1..Len(subscriptions)) :
            CalculateSubscriptionMetrics(
                Permute(subscriptions, f), periodStart, periodEnd).uniqueMonths
            = ret.uniqueMonths

\* two different subscriptions, both counted, of which one is covered in part
C7_Witness ==
    /\ pc = "done"
    /\ Len(subscriptions) = 2
    /\ MonthsOfSub(subscriptions[1], periodStart, periodEnd)
         # MonthsOfSub(subscriptions[2], periodStart, periodEnd)
    /\ MonthsOfSub(subscriptions[1], periodStart, periodEnd)
         \cap MonthsOfSub(subscriptions[2], periodStart, periodEnd) # {}
    /\ ret.uniqueMonths >= 2

\* the months of the window that both subscriptions of a pair cover
SharedMonths(subs, pStart, pEnd) ==
    MonthsOfSub(subs[1], pStart, pEnd) \cap MonthsOfSub(subs[2], pStart, pEnd)

(* C8: for two subscriptions with different prices sharing at least one    *)
(* month of the window, swapping them changes totalCost, by the price      *)
(* difference times the number of shared months.                           *)
C8_SwapChangesCostBySharedMonths ==
    ( /\ pc = "done"
      /\ Len(subscriptions) = 2
      /\ subscriptions[1].Price # subscriptions[2].Price
      /\ SharedMonths(subscriptions, periodStart, periodEnd) # {} ) =>
        LET swapped == CalculateSubscriptionMetrics(
                           <<subscriptions[2], subscriptions[1]>>,
                           periodStart, periodEnd)
        IN  /\ swapped.totalCost # ret.totalCost
            /\ ret.totalCost - swapped.totalCost =
                   (subscriptions[1].Price - subscriptions[2].Price)
                   * Cardinality(SharedMonths(subscriptions, periodStart, periodEnd))

\* a pair with different prices that shares some months and not others
C8_Witness ==
    /\ pc = "done"
    /\ Len(subscriptions) = 2
    /\ subscriptions[1].Price # subscriptions[2].Price
    /\ SharedMonths(subscriptions, periodStart, periodEnd) # {}
    /\ Cardinality(SharedMonths(subscriptions, periodStart, periodEnd))
         < ret.uniqueMonths

(* C9: a call keeps no hidden state: a call on the arguments of an earlier *)
(* call returns the same triple, whatever calls were made in between.      *)
C9_SameArgumentsSameResult ==
    ( /\ pc = "done"
      /\ remembered # <<>>
      /\ remembered[1].input = CurrentInput ) =>
        ret = remembered[1].result

\* the remembered call repeated after a call on other arguments
C9_Witness ==
    /\ pc = "done"
    /\ remembered # <<>>
    /\ remembered[1].input = CurrentInput
    /\ remembered[1].between
    /\ ret.uniqueMonths > 0

(* C10: for a single subscription of price p overlapping the window,       *)
(* totalCost = p x uniqueMonths and unitPrice = p; so for {400, 01-2024,   *)
(* 03-2024} and the window 01-2024 to 12-2024.                             *)
C10_SingleSubscription ==
    ( /\ pc = "done"
      /\ Len(subscriptions) = 1
      /\ MonthsOfSub(subscriptions[1], periodStart, periodEnd) # {} ) =>
        /\ ret.totalCost = subscriptions[1].Price * ret.uniqueMonths
        /\ ret.unitPrice = subscriptions[1].Price
        /\ ret.uniqueMonths > 0

\* the call on the scenario has finished, with January to March counted
C10_Witness ==
    /\ pc = "done"
    /\ CurrentInput = ScenarioClosed
    /\ ret = [unitPrice |-> 400, totalCost |-> 1200, uniqueMonths |-> 3]

----------------------------------------------------------------------------
(* Day of the month *)

SameList(subs, i, sub) == [subs EXCEPT ![i] = sub]

EndNotBeforeStart(sub) ==
    sub.EndDate = Nil \/ ~Before(sub.EndDate[1], sub.StartDate)

\* the dates ParseMonthYear yields, and the zero periodStart
AllFirsts(subs, pStart) ==
    /\ pStart.day = 1
    /\ \A i \in 1..Len(subs) :
          /\ subs[i].StartDate.day = 1
          /\ subs[i].EndDate # Nil => subs[i].EndDate[1].day = 1

\* C11 as stated: a finished call returned what it returns when any one of
\* its dates (a startDate, an endDate, periodStart or periodEnd) is replaced
\* by another date of the same calendar month.
C11_Original ==
    pc = "done" =>
        \A d \in Days :
            /\ CalculateSubscriptionMetrics(
                   subscriptions, WithDay(periodStart, d), periodEnd) = ret
            /\ CalculateSubscriptionMetrics(
                   subscriptions, periodStart, WithDay(periodEnd, d)) = ret
            /\ \A i \in 1..Len(subscriptions) :
                  LET sub == subscriptions[i]
                      s1  == [sub EXCEPT !.StartDate = WithDay(@, d)]
                      s2  == IF sub.EndDate = Nil THEN sub
                             ELSE [sub EXCEPT !.EndDate = <<WithDay(@[1], d)>>]
                  IN  /\ EndNotBeforeStart(s1) =>
                            CalculateSubscriptionMetrics(
                                SameList(subscriptions, i, s1),
                                periodStart, periodEnd) = ret
                      /\ EndNotBeforeStart(s2) =>
                            CalculateSubscriptionMetrics(
                                SameList(subscriptions, i, s2),
                                periodStart, periodEnd) = ret

\* C11, amended: when every startDate and endDate and periodStart is a first
\* of a month (or periodStart is zero), a finished call returned what it
\* returns with periodEnd on any other day of its calendar month.
C11_PeriodEndDayIrrelevant ==
    (pc = "done" /\ AllFirsts(subscriptions, periodStart)) =>
        \A d \in 1..DaysIn(periodEnd.year, periodEnd.month) :
            CalculateSubscriptionMetrics(
                subscriptions, periodStart, WithDay(periodEnd, d)) = ret

\* a call on firsts of months, periodEnd in the middle of the month in which
\* a subscription starts, has counted that month
C11_Witness ==
    /\ pc = "done"
    /\ AllFirsts(subscriptions, periodStart)
    /\ periodEnd.day = 15
    /\ \E i \in 1..Len(subscriptions) :
          subscriptions[i].StartDate = WithDay(periodEnd, 1)
    /\ MonthKey(periodEnd) \in uniqueMonths

----------------------------------------------------------------------------
(* Interval normalization *)

LaterOf(a, b) == IF Before(a, b) THEN b ELSE a

EarlierOf(a, b) == IF Before(b, a) THEN b ELSE a

\* C20: for the subscription the loop is about to process, effectiveStart is
\* the later of startDate and periodStart and effectiveEnd the earlier of
\* endDate and periodEnd (periodEnd without an end date); the iteration
\* leaves the month set and the cost alone when effectiveStart is strictly
\* after effectiveEnd, and otherwise the month set holds the months of both
\* ends of the effective interval, at least one month.
C20_IntervalNormalization ==
    (pc = "loop" /\ idx <= Len(subscriptions)) =>
        LET sub  == subscriptions[idx]
            l    == Locals(unitPrice, totalCost, uniqueMonths)
            next == LoopBody(l, sub, periodStart, periodEnd)
            es   == LaterOf(sub.StartDate, periodStart)
            ee   == IF sub.EndDate = Nil THEN periodEnd
                    ELSE EarlierOf(sub.EndDate[1], periodEnd)
        IN  /\ EffectiveStart(sub, periodStart) = es
            /\ EffectiveEnd(sub, periodEnd) = ee
            /\ After(es, ee) =>
                  /\ next.uniqueMonths = l.uniqueMonths
                  /\ next.totalCost = l.totalCost
            /\ ~After(es, ee) =>
                  /\ {MonthKey(es), MonthKey(ee)} \subseteq next.uniqueMonths
                  /\ AddOverlapMonths({}, es, ee).monthsAdded >= 1
                  /\ l.uniqueMonths = {} => next.totalCost > l.totalCost

\* the first subscription, clipped at both ends to an interval of one day,
\* has been counted
C20_Witness ==
    /\ pc = "loop"
    /\ idx = 2
    /\ subscriptions[1].EndDate # Nil
    /\ Before(subscriptions[1].StartDate, periodStart)
    /\ After(subscriptions[1].EndDate[1], periodEnd)
    /\ periodStart = periodEnd
    /\ uniqueMonths = {MonthKey(periodStart)}

----------------------------------------------------------------------------
(* The precondition of the core *)

\* C12: whenever GetUserSubscriptionSummary has passed its validations and
\* called the core, the core's periodEnd is not before its periodStart.
C12_CoreWindowOrdered ==
    (last.op = "GetUserSubscriptionSummary" /\ last.err = "nil") =>
        ~Before(periodEnd, periodStart)

----------------------------------------------------------------------------
(* The stored subscriptions *)

\* the row the last call found under its id, before it ran
OldRow == GetSubscriptionByID(last.before, last.id)

\* the row under that id now
NewRow == GetSubscriptionByID(store, last.id)

\* C14: every stored subscription has no endDate or an endDate that is not
\* before its startDate, whatever calls succeeded or failed before.
C14_EndNotBeforeStart ==
    \A r \in store : r.EndDate = Nil \/ ~Before(r.EndDate[1], r.StartDate)

\* an update with only start_date, to a month not before the stored end
\* date, has succeeded
C14_Witness ==
    /\ last.op = "UpdateSubscriptionByID"
    /\ last.err = "nil"
    /\ last.req.StartDate # ""
    /\ last.req.EndDate = ""
    /\ OldRow # Nil
    /\ OldRow[1].EndDate # Nil
    /\ ~Before(NewRow[1].StartDate, OldRow[1].EndDate[1])

\* C15: after a successful UpdateSubscriptionByID every field the request
\* omits (service_name, price, start_date, end_date) has the value it had
\* before the call.
C15_OmittedFieldsKept ==
    (last.op = "UpdateSubscriptionByID" /\ last.err = "nil") =>
        /\ last.req.ServiceName = "" => NewRow[1].ServiceName = OldRow[1].ServiceName
        /\ last.req.Price = 0 => NewRow[1].Price = OldRow[1].Price
        /\ last.req.StartDate = "" => NewRow[1].StartDate = OldRow[1].StartDate
        /\ last.req.EndDate = "" => NewRow[1].EndDate = OldRow[1].EndDate

----------------------------------------------------------------------------
(* The query window *)

\* sub is active from periodStart or before until periodEnd or after
ActiveOverWindow(sub, pStart, pEnd) ==
    /\ ~After(sub.StartDate, pStart)
    /\ sub.EndDate = Nil \/ ~Before(sub.EndDate[1], pEnd)

\* C13: after a call on a window with periodStart not after periodEnd, a
\* subscription active over the whole window has put every calendar month
\* from periodStart's month through periodEnd's month in the set; and with
\* the zero periodStart the effective start of every subscription is its
\* own startDate, whose month is in the set unless the subscription starts
\* after its effective end.
C13_WindowInclusive ==
    pc = "done" =>
        \A i \in 1..Len(subscriptions) :
            LET sub == subscriptions[i]
            IN  /\ (WindowOrdered /\ ActiveOverWindow(sub, periodStart, periodEnd))
                      => \A m \in Calendar :
                            InWindow(m, periodStart, periodEnd)
                                => MonthKey(m) \in uniqueMonths
                /\ IsZero(periodStart)
                      => /\ EffectiveStart(sub, periodStart) = sub.StartDate
                         /\ ~After(sub.StartDate, EffectiveEnd(sub, periodEnd))
                               => MonthKey(sub.StartDate) \in uniqueMonths

\* a subscription active over a window of two months, from the middle of
\* the first to the first day of the second, has put both months in the set
C13_Witness ==
    /\ pc = "done"
    /\ Len(subscriptions) = 1
    /\ ActiveOverWindow(subscriptions[1], periodStart, periodEnd)
    /\ periodStart.day = 15
    /\ periodEnd.day = 1
    /\ MonthOf(periodStart) # MonthOf(periodEnd)
    /\ uniqueMonths = {MonthKey(periodStart), MonthKey(periodEnd)}

----------------------------------------------------------------------------
(* Concurrent calls *)

\* C16: whatever the interleaving, a finished call returned what
\* CalculateSubscriptionMetrics returns on its arguments when run alone,
\* and the arguments of every call are as they were given.
C16_CallsDoNotInterfere ==
    \A r \in DOMAIN calls :
        /\ Input(calls[r].subscriptions, calls[r].periodStart,
                 calls[r].periodEnd) = calls[r].given
        /\ calls[r].pc = "done" =>
              calls[r].ret =
                  CalculateSubscriptionMetrics(calls[r].given.subscriptions,
                                               calls[r].given.periodStart,
                                               calls[r].given.periodEnd)

\* two calls on different arguments with months in common have finished,
\* each after iterations that ran between iterations of the other
C16_Witness ==
    /\ DOMAIN calls = Requests
    /\ \A r \in Requests :
          /\ calls[r].pc = "done"
          /\ calls[r].interleaved
          /\ r > 1 => /\ calls[r].given # calls[1].given
                      /\ calls[r].locals.uniqueMonths
                             \cap calls[1].locals.uniqueMonths # {}

----------------------------------------------------------------------------
(* Startup and shutdown *)

\* the errors Run returns after a failed Shutdown
ShutdownFailures ==
    {"ErrDeadlineExceeded", "ErrDeadlineExceeded+ErrClose"}

\* C18 as stated: once Run has returned, (1) if ListenAndServe failed with
\* an error of its own before any signal or cancellation, Run returned that
\* error and never called Shutdown; (2) if a signal or the cancellation
\* arrived, Run called Shutdown once with the timeout of 30 seconds and
\* returned nil on its success, the error after Close otherwise; (3) Run
\* returned nil only after a successful Shutdown.
C18_Original ==
    run.pc = "returned" =>
        /\ run.failedFirst =>
              /\ run.ret = run.serveErr
              /\ run.shutdowns = <<>>
        /\ run.triggered =>
              /\ run.shutdowns = <<shutdownTimeout>>
              /\ run.shutdownErr = "nil" => run.ret = "nil" /\ run.closes = 0
              /\ run.shutdownErr # "nil" =>
                    run.ret \in ShutdownFailures /\ run.closes = 1
        /\ run.ret = "nil" =>
              run.shutdowns = <<shutdownTimeout>> /\ run.shutdownErr = "nil"

\* C18, amended: once Run has returned, (1) if its select received from
\* serverErrChan, Run returned the error ListenAndServe failed with, an
\* error other than ErrServerClosed, and called neither Shutdown nor Close,
\* and this is what happened if no signal or cancellation ever arrived;
\* (2) if its select received a signal or the cancellation, Run called
\* Shutdown once with the timeout of 30 seconds and returned nil on its
\* success, and otherwise called Close once and returned the error, joined
\* with that of Close; (3) Run returned nil only after a successful
\* Shutdown.
C18_RunBySelectBranch ==
    run.pc = "returned" =>
        /\ run.branch \in {"serverErr", "quit", "ctx"}
        /\ ~run.triggered => run.branch = "serverErr"
        /\ run.branch = "serverErr" =>
              /\ run.ret = run.serveErr
              /\ run.ret \in ListenErrors
              /\ run.shutdowns = <<>>
              /\ run.closes = 0
        /\ run.branch \in {"quit", "ctx"} =>
              /\ run.shutdowns = <<shutdownTimeout>>
              /\ run.shutdownErr = "nil" => run.ret = "nil" /\ run.closes = 0
              /\ run.shutdownErr # "nil" =>
                    run.ret \in ShutdownFailures /\ run.closes = 1
        /\ run.ret = "nil" =>
              run.shutdowns = <<shutdownTimeout>> /\ run.shutdownErr = "nil"

\* ListenAndServe failed before any signal, its error was in the channel
\* when the signal came, the select took the signal, and Run returned nil
\* after a successful Shutdown
C18_Witness ==
    /\ run.pc = "returned"
    /\ run.failedFirst
    /\ run.branch = "quit"
    /\ run.ret = "nil"
    /\ run.shutdowns = <<shutdownTimeout>>

----------------------------------------------------------------------------
(* The database singleton *)

RECURSIVE SumOver(_, _)
SumOver(f, S) ==
    IF S = {} THEN 0
    ELSE LET x == CHOOSE y \in S : TRUE IN f[x] + SumOver(f, S \ {x})

\* C19: under every interleaving of the callers at most one connection is
\* opened, PgDriverInstance is assigned at most once, and every call that
\* has returned returned the one assigned instance.
C19_OneInstance ==
    /\ Len(opened) <= 1
    /\ SumOver([c \in DOMAIN callers |-> callers[c].opens], DOMAIN callers) <= 1
    /\ SumOver([c \in DOMAIN callers |-> callers[c].assigns], DOMAIN callers) <= 1
    /\ \A c \in DOMAIN callers :
          callers[c].pc = "done" =>
              /\ callers[c].ret # Nil
              /\ callers[c].ret = PgDriverInstance
              /\ \A d \in DOMAIN callers :
                    callers[d].pc = "done" => callers[d].ret = callers[c].ret

\* every caller has returned, two of them called with different
\* configurations, and one returned the instance of the other's
C19_Witness ==
    /\ DOMAIN callers = Callers
    /\ \A c \in Callers : callers[c].pc = "done"
    /\ \E c, d \in Callers :
          /\ callers[c].dsn # callers[d].dsn
          /\ callers[c].ret[1].dsn = callers[d].dsn
          /\ callers[c].ret = callers[d].ret
    /\ Len(opened) = 1

----------------------------------------------------------------------------
(* The adjacency clause of the overlap test *)

\* the loop body with the test effectiveStart.After(effectiveEnd) alone
LoopBodyAfterOnly(l, sub, pStart, pEnd) ==
    LET u  == IF l.unitPrice = 0 THEN sub.Price ELSE l.unitPrice
        es == EffectiveStart(sub, pStart)
        ee == EffectiveEnd(sub, pEnd)
        r  == AddOverlapMonths(l.uniqueMonths, es, ee)
    IN  IF After(es, ee) THEN Locals(u, l.totalCost, l.uniqueMonths)
        ELSE IF r.monthsAdded > 0
             THEN Locals(u, l.totalCost + sub.Price * r.monthsAdded, r.uniqueMonths)
             ELSE Locals(u, l.totalCost, r.uniqueMonths)

RECURSIVE RangeLoopAfterOnly(_, _, _, _, _)
RangeLoopAfterOnly(l, subs, i, pStart, pEnd) ==
    IF i > Len(subs) THEN l
    ELSE RangeLoopAfterOnly(LoopBodyAfterOnly(l, subs[i], pStart, pEnd),
                            subs, i + 1, pStart, pEnd)

\* the subscription's effective interval is empty by one day:
\* effectiveStart is the day after effectiveEnd
Adjacent(sub, pStart, pEnd) ==
    Equal(EffectiveStart(sub, pStart), AddDate(EffectiveEnd(sub, pEnd), 0, 1))

\* C21: a finished call returned the triple that the function returns with
\* the overlap test reduced to effectiveStart.After(effectiveEnd); and
\* whenever the loop is about to process a subscription whose effectiveStart
\* is the day after its effectiveEnd, effectiveStart is after effectiveEnd,
\* so that the adjacency clause never decides the test on its own.
C21_AdjacencyImpliedByAfter ==
    /\ pc = "done" =>
          ret = Result(RangeLoopAfterOnly(FreshLocals, subscriptions, 1,
                                          periodStart, periodEnd))
    /\ (pc = "loop" /\ idx <= Len(subscriptions)) =>
          LET sub == subscriptions[idx]
              es  == EffectiveStart(sub, periodStart)
              ee  == EffectiveEnd(sub, periodEnd)
          IN  /\ Adjacent(sub, periodStart, periodEnd) => After(es, ee)
              /\ NoOverlap(es, ee) <=> After(es, ee)

\* a call on a subscription that starts on the first of December with a
\* window ending on the thirtieth of November has finished, and counted
\* nothing
C21_Witness ==
    /\ pc = "done"
    /\ Len(subscriptions) = 1
    /\ Adjacent(subscriptions[1], periodStart, periodEnd)
    /\ subscriptions[1].StartDate.day = 1
    /\ periodEnd.day = 30
    /\ ret.uniqueMonths = 0

----------------------------------------------------------------------------
(* The month loop *)

\* the calendar months from the month of start to the month of end
MonthsFromTo(start, end) ==
    {m \in Calendar : ~Before(m, MonthOf(start)) /\ ~After(m, MonthOf(end))}

KeysFromTo(start, end) == {MonthKey(m) : m \in MonthsFromTo(start, end)}

\* C22: while a call of AddOverlapMonths runs, every key the map held at
\* the entry is still in it; when the call has returned, the map holds the
\* keys it was given and the key of every calendar month from the month of
\* start to the month of end, and no other, and the value returned is the
\* number of those keys that the map did not hold, the growth of the map.
\* The function computed in one piece gives the same map and the same count.
C22_AddOverlapMonths ==
    /\ aom.pc \in {"loop", "done"} =>
          /\ aom.given \subseteq uniqueMonths
          /\ uniqueMonths \subseteq aom.given \cup KeysFromTo(aom.start, aom.end)
    /\ aom.pc = "done" =>
          /\ uniqueMonths = aom.given \cup KeysFromTo(aom.start, aom.end)
          /\ aom.ret = Cardinality(KeysFromTo(aom.start, aom.end) \ aom.given)
          /\ aom.ret = Cardinality(uniqueMonths) - Cardinality(aom.given)
          /\ AddOverlapMonths(aom.given, aom.start, aom.end) =
                 [uniqueMonths |-> uniqueMonths, monthsAdded |-> aom.ret,
                  steps |-> aom.steps]

\* a call by itself, from the middle of a month to the middle of the next,
\* on a map that held one of the two keys, has returned 1
C22_Witness ==
    /\ pc = "idle"
    /\ aom.pc = "done"
    /\ aom.start.day = 15
    /\ aom.end.day = 15
    /\ aom.given = {MonthKey(aom.end)}
    /\ uniqueMonths = {MonthKey(aom.start), MonthKey(aom.end)}
    /\ aom.steps = 2
    /\ aom.ret = 1

\* C23: two calendar months have the same key if and only if they have the
\* same year and the same month number; a call from January 2024 to January
\* 2025 on an empty map has run over thirteen months and returned 13.
C23_KeysCollisionFree ==
    aom.pc = "done" =>
        /\ \A a, b \in MonthsFromTo(aom.start, aom.end) \cup ModelMonths :
              (MonthKey(a) = MonthKey(b)) <=>
                  (a.year = b.year /\ a.month = b.month)
        /\ aom.given = {} =>
              aom.ret = Cardinality(MonthsFromTo(aom.start, aom.end))

\* the call from January 2024 to January 2025 on an empty map has returned
\* 13, with the keys of both Januaries in the map
C23_Witness ==
    /\ aom.pc = "done"
    /\ aom.start = Date(2024, 1, 1)
    /\ aom.end = Date(2025, 1, 1)
    /\ aom.given = {}
    /\ aom.ret = 13
    /\ {MonthKey(Date(2024, 1, 1)), MonthKey(Date(2025, 1, 1))}
           \subseteq uniqueMonths

----------------------------------------------------------------------------
(* Termination *)

\* the iterations the month loop runs from start to end
MonthCount(start, end) ==
    IF After(MonthOf(start), MonthOf(end)) THEN 0
    ELSE Cardinality(MonthsFromTo(start, end))

\* the calendar months of the query window
WindowSize(pStart, pEnd) ==
    Cardinality({m \in Calendar : InWindow(m, pStart, pEnd)})

RECURSIVE TotalSteps(_)
TotalSteps(log) ==
    IF log = <<>> THEN 0 ELSE Head(log).steps + TotalSteps(Tail(log))

\* a call of the core is running
InCall == pc \in {"loop", "months"}

C24_Bounded ==
    /\ aom.pc = "loop" => aom.steps <= MonthCount(aom.start, aom.end)
    /\ aom.pc = "done" => aom.steps = MonthCount(aom.start, aom.end)
    /\ (aom.pc = "done" /\ After(MonthOf(aom.start), MonthOf(aom.end))) =>
          aom.steps = 0
    /\ InCall => Len(processed) = idx - 1
    /\ pc = "done" =>
          /\ Len(processed) = Len(subscriptions)
          /\ idx = Len(subscriptions) + 1
          /\ ~IsZero(periodStart) =>
                TotalSteps(processed) <=
                    Len(subscriptions) * WindowSize(periodStart, periodEnd)

\* C24: the month loop of AddOverlapMonths runs as many iterations as there
\* are calendar months from the month of start to the month of end, none
\* when the month of start is after that of end, and then the call returns;
\* a call of CalculateSubscriptionMetrics returns after one iteration for
\* each subscription of the list, and with periodStart set the iterations
\* of the month loop number at most the length of the list times the
\* calendar months of the window.
C24_Terminates ==
    /\ []C24_Bounded
    /\ (aom.pc = "loop") ~> (aom.pc = "done")
    /\ InCall ~> (pc = "done")

\* a call on two subscriptions, each running over both months of the
\* window, has returned after four iterations of the month loop
C24_Witness ==
    /\ pc = "done"
    /\ Len(subscriptions) = 2
    /\ ~IsZero(periodStart)
    /\ WindowSize(periodStart, periodEnd) = 2
    /\ TotalSteps(processed) = 4

----------------------------------------------------------------------------
(* The accounts of the fold *)

RECURSIVE TotalAdded(_)
TotalAdded(log) ==
    IF log = <<>> THEN 0 ELSE Head(log).monthsAdded + TotalAdded(Tail(log))

\* the sum of price x monthsAdded over the first n subscriptions
RECURSIVE CostOf(_, _, _)
CostOf(subs, log, n) ==
    IF n = 0 THEN 0
    ELSE subs[n].Price * log[n].monthsAdded + CostOf(subs, log, n - 1)

PricesOf(subs) == {subs[i].Price : i \in 1..Len(subs)}

MinOf(S) == CHOOSE x \in S : \A y \in S : x <= y

MaxOf(S) == CHOOSE x \in S : \A y \in S : y <= x

\* C25: between the iterations of the range loop and at its end, the size
\* of the month map is the sum of the monthsAdded of the subscriptions
\* processed and totalCost the sum of their price x monthsAdded; for the
\* triple returned, with prices all positive, totalCost lies between the
\* least and the greatest price times uniqueMonths, and is 0 if and only if
\* uniqueMonths is 0.
C25_Accounting ==
    /\ pc \in {"loop", "done"} =>
          /\ Cardinality(uniqueMonths) = TotalAdded(processed)
          /\ totalCost = CostOf(subscriptions, processed, Len(processed))
    /\ (pc = "done" /\ \A p \in PricesOf(subscriptions) : p > 0) =>
          /\ ret.uniqueMonths = TotalAdded(processed)
          /\ ret.totalCost = CostOf(subscriptions, processed, Len(processed))
          /\ subscriptions # <<>> =>
                /\ MinOf(PricesOf(subscriptions)) * ret.uniqueMonths
                       <= ret.totalCost
                /\ ret.totalCost
                       <= MaxOf(PricesOf(subscriptions)) * ret.uniqueMonths
          /\ ret.totalCost = 0 <=> ret.uniqueMonths = 0

\* a call on two subscriptions of different prices, each of which added a
\* month, has returned a cost strictly between the two bounds
C25_Witness ==
    /\ pc = "done"
    /\ Len(subscriptions) = 2
    /\ processed[1].monthsAdded = 1
    /\ processed[2].monthsAdded = 1
    /\ subscriptions[1].Price < subscriptions[2].Price
    /\ subscriptions[1].Price * ret.uniqueMonths < ret.totalCost
    /\ ret.totalCost < subscriptions[2].Price * ret.uniqueMonths

----------------------------------------------------------------------------
(* The months counted and the window *)

WindowKeys(pStart, pEnd) ==
    {MonthKey(m) : m \in {c \in Calendar : InWindow(c, pStart, pEnd)}}

\* C26: at every point of a call of CalculateSubscriptionMetrics, inside
\* the month loop too, every key of the month map is the key of a calendar
\* month from the month of periodStart to the month of periodEnd, so that
\* the map never holds more keys than the window has months; and a call
\* with periodEnd before periodStart returns uniqueMonths = 0 and
\* totalCost = 0.
C26_CountedMonthsInWindow ==
    /\ (InCall \/ pc = "done") =>
          /\ uniqueMonths \subseteq WindowKeys(periodStart, periodEnd)
          /\ Cardinality(uniqueMonths) <= WindowSize(periodStart, periodEnd)
    /\ (pc = "done" /\ Before(periodEnd, periodStart)) =>
          /\ ret.uniqueMonths = 0
          /\ ret.totalCost = 0

\* inside the month loop of a subscription that began in the month before
\* the window and has no end: after one iteration the map holds the month
\* of the window and not the month in which the subscription began
C26_Witness ==
    /\ pc = "months"
    /\ aom.pc = "loop"
    /\ aom.steps = 1
    /\ Before(subscriptions[idx].StartDate, MonthOf(periodStart))
    /\ subscriptions[idx].EndDate = Nil
    /\ ~IsZero(periodStart)
    /\ uniqueMonths = {MonthKey(periodStart)}
    /\ MonthKey(subscriptions[idx].StartDate) \notin uniqueMonths

----------------------------------------------------------------------------
(* The zero end date *)

ZeroEnded(sub) == sub.EndDate # Nil /\ IsZero(sub.EndDate[1])

\* C27: a call returned what it returns with the EndDate of any
\* subscription whose EndDate points to the zero time set to nil; and when
\* the loop is about to process such a subscription, its effective end is
\* periodEnd, and it is skipped only if its effective start is after
\* periodEnd.
C27_ZeroEndDateIsOngoing ==
    /\ pc = "done" =>
          \A i \in 1..Len(subscriptions) :
              ZeroEnded(subscriptions[i]) =>
                  CalculateSubscriptionMetrics(
                      [subscriptions EXCEPT ![i].EndDate = Nil],
                      periodStart, periodEnd) = ret
    /\ (pc = "loop" /\ idx <= Len(subscriptions)
          /\ ZeroEnded(subscriptions[idx])) =>
          LET sub == subscriptions[idx]
              es  == EffectiveStart(sub, periodStart)
          IN  /\ EffectiveEnd(sub, periodEnd) = periodEnd
              /\ NoOverlap(es, EffectiveEnd(sub, periodEnd))
                     <=> After(es, periodEnd)

\* a call on one subscription whose EndDate points to the zero time has
\* counted both months of the window
C27_Witness ==
    /\ pc = "done"
    /\ Len(subscriptions) = 1
    /\ ZeroEnded(subscriptions[1])
    /\ ret.uniqueMonths = 2
    /\ ret.totalCost = 2 * subscriptions[1].Price

----------------------------------------------------------------------------
(* The window of a summary request *)

----------------------------------------------------------------------------
(* Failed requests *)

\* the errors of the validations of CreateSubscription and
\* UpdateSubscriptionByID
ValidationErrors ==
    {"ErrEmptyUserID", "ErrInvalidUserID", "ErrInvalidStartDate",
     "ErrInvalidEndDate", "ErrEndDateBeforeStart", "ErrInvalidServiceName"}

\* C29: after a CreateSubscription or an UpdateSubscriptionByID that
\* returned an error, the table holds the rows it held before the call,
\* each with the values it had; the error of a request on an existing row
\* is that of a validation, answered 400, also when the fields validated
\* before the failing one were valid and differ from the stored ones.
C29_FailedRequestKeepsStore ==
    (/\ last.op \in {"CreateSubscription", "UpdateSubscriptionByID"}
     /\ last.err # "nil") =>
        /\ store = last.before
        /\ last.err \in ValidationErrors \cup {"ErrSubscriptionNotFound"}
        /\ last.err \in ValidationErrors => last.status = 400
        /\ last.op = "UpdateSubscriptionByID" =>
              /\ NewRow = OldRow
              /\ OldRow # Nil => last.err \in ValidationErrors

\* an update of a stored row with a new service name, price and start date
\* and an end date before that start date was refused, and the row is as
\* it was
C29_Witness ==
    /\ last.op = "UpdateSubscriptionByID"
    /\ last.err = "ErrEndDateBeforeStart"
    /\ OldRow # Nil
    /\ last.req.ServiceName # ""
    /\ last.req.ServiceName # OldRow[1].ServiceName
    /\ last.req.Price # OldRow[1].Price
    /\ last.req.StartDate = "12-2024"
    /\ OldRow[1].StartDate # Date(2024, 12, 1)
    /\ last.req.EndDate = "11-2024"
    /\ store = last.before

----------------------------------------------------------------------------
(* The server goroutine *)

\* the goroutine has a value to send
AtSend == run.serve = "returned" /\ ShouldSend(run.serveErr)

C30_ChannelSafe ==
    /\ run.serve # "panic"
    /\ run.sends <= 1
    /\ run.chanCloses <= 1
    /\ Len(serverErrChan.buf) <= serverErrChan.cap
    /\ AtSend => /\ ~serverErrChan.closed
                 /\ Len(serverErrChan.buf) < serverErrChan.cap
    /\ run.serve = "close" => ~serverErrChan.closed
    /\ serverErrChan.closed <=> run.serve = "exit"
    /\ run.serve = "exit" =>
          /\ run.chanCloses = 1
          /\ run.sends = IF ShouldSend(run.serveErr) THEN 1 ELSE 0

\* C30: in every interleaving of the goroutine with Run, the signals and
\* the cancellation, the goroutine sends at most one value on
\* serverErrChan and finds room in the buffer when it sends, closes the
\* channel once, after the send if there is one, and never sends on or
\* closes a closed channel; once ListenAndServe has returned, the
\* goroutine comes to its end.
C30_GoroutineEnds ==
    /\ []C30_ChannelSafe
    /\ (run.serve = "returned") ~> (run.serve = "exit")

\* Run left its select on a signal, ListenAndServe then failed with an
\* error of its own, and the goroutine has put the error in the buffer,
\* which nobody receives from, closed the channel and ended
C30_Witness ==
    /\ run.branch = "quit"
    /\ run.serveErr \in ListenErrors
    /\ ~run.failedFirst
    /\ run.serve = "exit"
    /\ run.sends = 1
    /\ serverErrChan.buf = <<run.serveErr>>
    /\ serverErrChan.closed

====
